---- MODULE Spec2Model ----
(***************************************************************************)
(* The agent loop of cli-assistant (cli_assistant/ai/agent.py): one Agent  *)
(* with its Environment, driven through successive Agent.run calls.  A     *)
(* step of the model is one suspension point of run: the call itself, a    *)
(* completion request, the dispatch of one tool call, the continuation     *)
(* hook.  The gateway's answers, the tools' outcomes and the hook's return *)
(* are the inputs, drawn from small sets.                                  *)
(***************************************************************************)
EXTENDS Integers, Sequences, FiniteSets, TLC

\* ------------------------------------------------------------------ bounds
\* Largest max_iterations a run is given, and the iterations all runs of one
\* Agent may be given together.
MaxBudget == 3
\* Number of Agent.run calls on one Agent.
MaxRuns == 2

\* ----------------------------------------------------------- Python values
\* None among Optional[str] values; no string of the program equals it.
None == "<None>"

PyStr(s) == [kind |-> "str", val |-> s]
PyInt(n) == [kind |-> "int", val |-> n]

Digit(d) ==
    CASE d = 0 -> "0" [] d = 1 -> "1" [] d = 2 -> "2" [] d = 3 -> "3"
      [] d = 4 -> "4" [] d = 5 -> "5" [] d = 6 -> "6" [] d = 7 -> "7"
      [] d = 8 -> "8" [] d = 9 -> "9"

RECURSIVE IntToStr(_)
IntToStr(n) ==
    IF n < 0 THEN "-" \o IntToStr(0 - n)
    ELSE IF n < 10 THEN Digit(n)
    ELSE IntToStr(n \div 10) \o Digit(n % 10)

\* str(x)
Str(x) ==
    CASE x.kind = "str" -> x.val
      [] x.kind = "None" -> "None"
      [] OTHER -> IntToStr(x.val)

\* Truthy with the empty string taken for an instruction.
TruthyNotNone(s) == s # None

\* Truth value of an Optional[str]: None and "" are false.
Truthy(s) == s # None /\ s # ""

\* ---------------------------------------------------------------- messages
\* An append that writes over the last entry.
ListAppend_Overwrite(list, x) ==
    IF list = <<>> THEN <<x>> ELSE [list EXCEPT ![Len(list)] = x]

\* list.append(x)
ListAppend(list, x) == Append(list, x)

format_system_message(content) == [role |-> "system", content |-> content]

\* The task entered under the system role.
format_user_message_AsSystem(content) == [role |-> "system", content |-> content]

format_user_message(content) == [role |-> "user", content |-> content]

format_tool_message(content, tool_call_id) ==
    [role |-> "tool", content |-> content, tool_call_id |-> tool_call_id]

\* LLMCompletionResponse(assistant_message), not yet marked interrupted.
LLMCompletionResponse(assistant_message) ==
    [assistant_message |-> assistant_message, interrupted |-> FALSE]

\* The dict {} of LLMCompletionResponse({}).
EmptyDict == [k \in {} |-> None]

\* LLMCompletionResponse.tool_calls: the entry, or <<>> when the key is absent
\* (Python's None; both are false in `if response.tool_calls`).
ToolCallsOf(response) ==
    IF "tool_calls" \in DOMAIN response.assistant_message
    THEN response.assistant_message.tool_calls
    ELSE <<>>

\* The test `is not None` in place of the truth value.
HasToolCalls_KeyPresent(response) ==
    "tool_calls" \in DOMAIN response.assistant_message

\* `if response.tool_calls:`
HasToolCalls(response) == ToolCallsOf(response) # <<>>

\* ------------------------------------------------------ json.loads(arguments)
\* An arguments payload is the sequence of its lexemes.
JsonStringLexemes ==
    {"\"arg1\"", "\"value1\"", "\"x\"", "\"command\"", "\"ls\"",
     "\"goodbye_message\"", "\"Bye\"", "\"risk_assessment\"",
     "\"explanation\"", "\"disclaimer\"", "\"ls -l\"", "\"rm -rf /\"",
     "\"list files\"", "\"deletes everything\"", "\"Danger!\"",
     "\"high\"", "\"\"", "\"path\"", "\"README.md\"", "\"content\"",
     "\"# Title\""}
JsonNumberLexemes == {"0", "1", "2", "5"}
JsonLiteralLexemes == {"null"}
JsonValueLexemes ==
    JsonStringLexemes \cup JsonNumberLexemes \cup JsonLiteralLexemes

JsonFail == [ok |-> FALSE, value |-> {}]

\* The members of an object after "{" or ",": key ":" value, then "," or "}".
\* The value is the set of <<key, value>> pairs read.
RECURSIVE JsonMembers(_, _, _)
JsonMembers(toks, i, acc) ==
    IF i + 3 > Len(toks) THEN JsonFail
    ELSE IF ~(toks[i] \in JsonStringLexemes /\ toks[i + 1] = ":"
              /\ toks[i + 2] \in JsonValueLexemes) THEN JsonFail
    ELSE LET acc2 == {p \in acc : p[1] # toks[i]} \cup {<<toks[i], toks[i + 2]>>}
         IN  IF toks[i + 3] = "}"
             THEN IF i + 3 = Len(toks) THEN [ok |-> TRUE, value |-> acc2]
                  ELSE JsonFail
             ELSE IF toks[i + 3] = "," THEN JsonMembers(toks, i + 4, acc2)
             ELSE JsonFail

\* json.loads on an object payload: ok with the parsed members, or the
\* JSONDecodeError.
JsonLoads(toks) ==
    IF Len(toks) < 2 \/ toks[1] # "{" THEN JsonFail
    ELSE IF toks[2] = "}"
         THEN IF Len(toks) = 2 THEN [ok |-> TRUE, value |-> {}] ELSE JsonFail
    ELSE JsonMembers(toks, 2, {})

\* ------------------------------------------------------------- Environment
\* An identifier is the sequence of its pieces: each underscore it starts or
\* ends with is a piece of its own, and no other piece starts with one.
\* Join gives the identifier as the string Python holds.
RECURSIVE Join(_)
Join(pieces) ==
    IF pieces = <<>> THEN "" ELSE pieces[1] \o Join(Tail(pieces))

\* startswith("_") with only the dunder names taken for private.
StartsWithUnderscore_DunderOnly(attr_name) ==
    Len(attr_name) >= 2 /\ attr_name[1] = "_" /\ attr_name[2] = "_"

\* attr_name.startswith("_")
StartsWithUnderscore(attr_name) == attr_name # <<>> /\ attr_name[1] = "_"

\* A dict is the sequence of its entries [key, value] in insertion order.
DictKeys(d) == {d[i].key : i \in DOMAIN d}

\* d[k], for a key of d
DictItem(d, k) == d[CHOOSE i \in DOMAIN d : d[i].key = k].value

\* d[k] = v: a new key is entered last, a known key keeps its place.
DictSet(d, k, v) ==
    IF k \in DictKeys(d)
    THEN [i \in DOMAIN d |->
              IF d[i].key = k THEN [key |-> k, value |-> v] ELSE d[i]]
    ELSE Append(d, [key |-> k, value |-> v])

\* func.__doc__: None, or the docstring as the sequence of its pieces, a
\* blank or a line break being a piece of its own.
DocNone == [kind |-> "None"]
DocStr(text) == [kind |-> "str", text |-> text]

Whitespace == {" ", "\n"}

RECURSIVE LStrip(_)
LStrip(text) ==
    IF text # <<>> /\ text[1] \in Whitespace THEN LStrip(Tail(text)) ELSE text

RECURSIVE RStrip(_)
RStrip(text) ==
    IF text # <<>> /\ text[Len(text)] \in Whitespace
    THEN RStrip(SubSeq(text, 1, Len(text) - 1))
    ELSE text

\* str.strip()
Strip(text) == RStrip(LStrip(text))

\* The description taken as str(func.__doc__).strip().
tool_description_StrOfDoc(doc) ==
    IF doc.kind = "None" THEN "None" ELSE Join(Strip(doc.text))

\* tool_description = func.__doc__.strip() if func.__doc__ else ""
tool_description(doc) ==
    IF doc.kind = "str" /\ doc.text # <<>> THEN Join(Strip(doc.text)) ELSE ""

\* A parameter of a signature; hint is the annotation, NoHint when there is none.
NoHint == "<no hint>"
Param(name, hint, has_default) ==
    [name |-> name, hint |-> hint, has_default |-> has_default]

Self == Param("self", NoHint, FALSE)

\* get_type_hints(func), over the parameters
get_type_hints(func) ==
    LET hinted == {i \in DOMAIN func.params : func.params[i].hint # NoHint}
    IN  [p \in {func.params[i].name : i \in hinted} |->
             func.params[CHOOSE i \in hinted : func.params[i].name = p].hint]

\* The table with float entered as an integer.
param_types_FloatAsInteger ==
    [str |-> "string", int |-> "integer", float |-> "integer",
     bool |-> "boolean", list |-> "array", dict |-> "object"]

param_types ==
    [str |-> "string", int |-> "integer", float |-> "number",
     bool |-> "boolean", list |-> "array", dict |-> "object"]

\* param_types.get(param_type, "string")
JsonType(param_type) ==
    IF param_type \in DOMAIN param_types THEN param_types[param_type]
    ELSE "string"

\* Every parameter taken for required.
IsRequired_Always(param) == TRUE

\* param.default == inspect.Parameter.empty
IsRequired(param) == ~param.has_default

\* The loop over signature.parameters.items(), from parameter i on.
RECURSIVE BuildSchema(_, _, _, _)
BuildSchema(parameters, type_hints, i, args_schema) ==
    IF i > Len(parameters) THEN args_schema
    ELSE LET param == parameters[i]
             param_name == param.name
         IN  IF param_name = "self"
             THEN BuildSchema(parameters, type_hints, i + 1, args_schema)
             ELSE LET param_type ==
                          IF param_name \in DOMAIN type_hints
                          THEN type_hints[param_name] ELSE "str"
                      param_schema == [type |-> JsonType(param_type)]
                      with_property ==
                          [args_schema EXCEPT
                              !.properties = DictSet(@, param_name, param_schema)]
                      with_required ==
                          IF IsRequired(param)
                          THEN [with_property EXCEPT
                                   !.required = ListAppend(@, param_name)]
                          ELSE with_property
                  IN  BuildSchema(parameters, type_hints, i + 1, with_required)

\* A function object: its __name__, __doc__, signature and attribute dict.
Def(name, doc, params) ==
    [kind |-> "function", name |-> name, doc |-> doc, params |-> params,
     attrs |-> <<>>]

\* A value that is no function (the tools dict, __dict__).
DictObject == [kind |-> "dict", attrs |-> <<>>]

\* The __tool_info__ the decorator computes for func.
ToolInfo(func) ==
    [function |-> func,
     tool_name |-> Join(func.name),
     description |-> tool_description(func.doc),
     parameters |-> BuildSchema(func.params, get_type_hints(func), 1,
                        [type |-> "object", properties |-> <<>>,
                         required |-> <<>>])]

\* @Environment.tool(): func comes back with __tool_info__ set.
tool(func) ==
    [func EXCEPT !.attrs = DictSet(@, "__tool_info__", ToolInfo(func))]

\* hasattr(attr, "__tool_info__")
hasattr_tool_info(attr) == "__tool_info__" \in DictKeys(attr.attrs)

\* A class is the sequence of the members its body declares,
\* [attr, value]; a later declaration of a name replaces an earlier one.
Member(attr, value) == [attr |-> attr, value |-> value]

\* What class Environment gives every instance.
BaseMembers ==
    <<Member(<<"_", "_", "dict", "_", "_">>, DictObject),
      Member(<<"_", "_", "init", "_", "_">>,
             Def(<<"_", "_", "init", "_", "_">>, DocNone, <<Self>>)),
      Member(<<"_", "collect_tools">>,
             Def(<<"_", "collect_tools">>, DocNone, <<Self>>)),
      Member(<<"get_tools">>, Def(<<"get_tools">>, DocNone, <<Self>>)),
      Member(<<"handle_agent_response">>,
             Def(<<"handle_agent_response">>, DocNone,
                 <<Self, Param("agent_response", "LLMCompletionResponse", FALSE)>>)),
      Member(<<"run_tool">>,
             Def(<<"run_tool">>, DocNone,
                 <<Self, Param("tool_name", "str", FALSE),
                   Param("args", "Dict", FALSE)>>)),
      Member(<<"tool">>, Def(<<"tool">>, DocNone, <<>>))>>

\* What __init__ has set on the instance when the collection starts:
\* self.tools = {}
InstanceMembers == <<Member(<<"tools">>, DictObject)>>

AttrNames(members) == {members[i].attr : i \in DOMAIN members}

LastDeclared(members, attr_name) ==
    members[CHOOSE i \in DOMAIN members :
                /\ members[i].attr = attr_name
                /\ \A j \in DOMAIN members :
                       members[j].attr = attr_name => j <= i].value

\* getattr(self, attr_name): the instance's own attribute, else the class's,
\* else the base class's.
getattr(class_def, attr_name) ==
    IF attr_name \in AttrNames(InstanceMembers)
    THEN LastDeclared(InstanceMembers, attr_name)
    ELSE IF attr_name \in AttrNames(class_def)
    THEN LastDeclared(class_def, attr_name)
    ELSE LastDeclared(BaseMembers, attr_name)

\* The identifiers of the model in the order Python sorts strings.
SortedNames ==
    <<<<"_", "_", "dict", "_", "_">>, <<"_", "_", "init", "_", "_">>,
      <<"_", "collect_tools">>, <<"_", "get_user_confirmation">>,
      <<"_", "helper">>, <<"_", "private_tool">>,
      <<"create_directory">>, <<"create_file">>,
      <<"fetch">>, <<"get_git_commit">>, <<"get_git_history">>,
      <<"get_tools">>, <<"handle_agent_response">>,
      <<"list_files_and_dirs">>,
      <<"list_items">>, <<"no_doc_tool">>, <<"plain_method">>,
      <<"read_file">>,
      <<"run_command">>, <<"run_tool">>, <<"sample_tool">>,
      <<"summarize_path">>, <<"terminate">>,
      <<"tool">>, <<"tool_a">>,
      <<"tool_b">>, <<"tools">>, <<"typed_tool">>, <<"write_readme">>>>

\* dir(self): the names of the instance, sorted.
dir(class_def) ==
    LET names == AttrNames(InstanceMembers) \cup AttrNames(class_def)
                     \cup AttrNames(BaseMembers)
        Present(attr_name) == attr_name \in names
    IN  SelectSeq(SortedNames, Present)

\* Environment._collect_tools: the loop over dir(self), from name i on.
RECURSIVE collect_tools(_, _, _, _)
collect_tools(class_def, names, i, tool_table) ==
    IF i > Len(names) THEN tool_table
    ELSE LET attr_name == names[i]
             attr == getattr(class_def, attr_name)
         IN  IF StartsWithUnderscore(attr_name)
             THEN collect_tools(class_def, names, i + 1, tool_table)
             ELSE IF hasattr_tool_info(attr)
             THEN collect_tools(class_def, names, i + 1,
                      DictSet(tool_table, Join(attr_name),
                              DictItem(attr.attrs, "__tool_info__")))
             ELSE collect_tools(class_def, names, i + 1, tool_table)

\* Environment.__init__: self.tools = {} and the collection.
EnvironmentInit(class_def) == collect_tools(class_def, dir(class_def), 1, <<>>)

\* A listing that names each entry by its key in the table.
get_tools_KeyAsName(tool_table) ==
    [i \in DOMAIN tool_table |->
        [type |-> "function",
         function |-> [name |-> tool_table[i].key,
                       description |-> tool_table[i].value.description,
                       parameters |-> tool_table[i].value.parameters]]]

\* Environment.get_tools
get_tools(tool_table) ==
    [i \in DOMAIN tool_table |->
        LET t == tool_table[i].value
        IN  [type |-> "function",
             function |-> [name |-> t.tool_name,
                           description |-> t.description,
                           parameters |-> t.parameters]]]

\* The tool methods of the Environment the Agent is given.
ToolNames == {"tool_a", "tool_b"}

AgentEnvClass ==
    <<Member(<<"tool_a">>, tool(Def(<<"tool_a">>, DocStr(<<"Tool A.">>), <<Self>>))),
      Member(<<"tool_b">>, tool(Def(<<"tool_b">>, DocStr(<<"Tool B.">>), <<Self>>)))>>

\* What a tool implementation may do when called: return a value or raise an
\* Exception with a text (val is then the exception, Str(val) its text).
ToolBehaviours(tool_name) ==
    IF tool_name = "tool_a"
    THEN {[raised |-> FALSE, val |-> PyStr("Result A"), impl |-> TRUE],
          [raised |-> TRUE, val |-> PyStr("boom"), impl |-> TRUE]}
    ELSE {[raised |-> FALSE, val |-> PyInt(7), impl |-> TRUE]}

\* `if tool_info:` after self.tools.get(tool_name)
ToolFound(tool_table, tool_name) == tool_name \in DictKeys(tool_table)

\* The ValueError of Environment.run_tool.
ToolNotFound(tool_name) ==
    [raised |-> TRUE, val |-> PyStr("Tool '" \o tool_name \o "' not found."),
     impl |-> FALSE]

\* run_tool without the lookup guard: whatever is called answers.
run_tool_NoLookup(tool_table, tool_name, b) == b

\* Environment.run_tool(tool_name, args): the implementation's outcome b when
\* the tool is in the table, the ValueError otherwise.
run_tool(tool_table, tool_name, b) ==
    IF ToolFound(tool_table, tool_name) THEN b ELSE ToolNotFound(tool_name)

FollowUp == "Now do this other thing."

\* A default hook that asks for more.
handle_agent_response_Continues == FollowUp

\* Environment.handle_agent_response, the default.
handle_agent_response == None

\* The classes of Environment an Agent is given: the base class, and a
\* subclass that overrides the continuation hook.
EnvClasses == {"Environment", "Subclass"}

\* What env.handle_agent_response may return.
HookReturns(cls) ==
    IF cls = "Environment" THEN {handle_agent_response}
    ELSE {None, "", FollowUp}

\* ---------------------------------------------------------- ChatEnvironment
\* Empty lines a user enters at one prompt before something else.
MaxEmptyLines == 1

\* What input() does: a line is read, or the read is interrupted.
Line(text) == [kind |-> "line", text |-> text]
KeyboardInterrupt == [kind |-> "KeyboardInterrupt"]
EOFError == [kind |-> "EOFError"]

\* str.lower() on the answers of the model.
Lower(text) ==
    CASE text = "Y" -> "y"
      [] text = "YES" -> "yes"
      [] text = "N" -> "n"
      [] OTHER -> text

\* What a step of the session did at the terminal: texts printed, prompts
\* shown with what input() did at each, shell commands started.
NoIO == [printed |-> <<>>, asked |-> <<>>, started |-> <<>>]

\* The json.loads of a string lexeme.
Unquote(lexeme) ==
    CASE lexeme = "\"command\"" -> "command"
      [] lexeme = "\"ls\"" -> "ls"
      [] lexeme = "\"goodbye_message\"" -> "goodbye_message"
      [] lexeme = "\"Bye\"" -> "Bye"
      [] lexeme = "\"arg1\"" -> "arg1"
      [] lexeme = "\"value1\"" -> "value1"
      [] lexeme = "\"x\"" -> "x"
      [] lexeme = "\"risk_assessment\"" -> "risk_assessment"
      [] lexeme = "\"explanation\"" -> "explanation"
      [] lexeme = "\"disclaimer\"" -> "disclaimer"
      [] lexeme = "\"ls -l\"" -> "ls -l"
      [] lexeme = "\"rm -rf /\"" -> "rm -rf /"
      [] lexeme = "\"list files\"" -> "list files"
      [] lexeme = "\"deletes everything\"" -> "deletes everything"
      [] lexeme = "\"Danger!\"" -> "Danger!"
      [] lexeme = "\"high\"" -> "high"
      [] lexeme = "\"\"" -> ""
      [] lexeme = "\"path\"" -> "path"
      [] lexeme = "\"README.md\"" -> "README.md"
      [] lexeme = "\"content\"" -> "content"
      [] lexeme = "\"# Title\"" -> "# Title"
      [] OTHER -> lexeme

\* The keyword names of **args
KwNames(args) == {Unquote(p[1]) : p \in args}

\* args[name], for a name of args
KwValue(args, name) == Unquote((CHOOSE p \in args : Unquote(p[1]) = name)[2])

\* func(self, **args): the TypeError text when the call does not bind,
\* "" when it does.  params are the parameters after self.
BindError(qualname, params, args) ==
    LET names == {params[i].name : i \in DOMAIN params}
        unexpected == KwNames(args) \ names
        missing == {i \in DOMAIN params :
                        ~params[i].has_default /\ params[i].name \notin KwNames(args)}
    IN  IF unexpected # {}
        THEN qualname \o "() got an unexpected keyword argument '"
                 \o (CHOOSE n \in unexpected : TRUE) \o "'"
        ELSE IF missing # {}
        THEN qualname \o "() missing 1 required positional argument: '"
                 \o params[CHOOSE i \in missing : \A j \in missing : i <= j].name
                 \o "'"
        ELSE ""

\* The confirmation taken for given unless the answer is n.
get_user_confirmation_UnlessNo(ev) == ~(ev.kind = "line" /\ Lower(ev.text) = "n")

\* ChatEnvironment._get_user_confirmation, on what input() did: yes when the
\* line read is y in either case; KeyboardInterrupt and EOFError are a no.
get_user_confirmation(ev) == ev.kind = "line" /\ Lower(ev.text) = "y"

PyNone == [kind |-> "None", val |-> 0]

\* What subprocess.run does with a command it has started: the process's
\* output, CalledProcessError on a non-zero exit, TimeoutExpired, or another
\* exception with its text in stderr.
ProcOutcomes ==
    {[exc |-> "", returncode |-> 0, stdout |-> <<"command output", "\n">>,
      stderr |-> <<>>],
     [exc |-> "", returncode |-> 0, stdout |-> <<>>, stderr |-> <<"\n">>],
     [exc |-> "CalledProcessError", returncode |-> 1, stdout |-> <<>>,
      stderr |-> <<"No such file", "\n">>],
     [exc |-> "TimeoutExpired", returncode |-> 0, stdout |-> <<>>,
      stderr |-> <<>>],
     [exc |-> "Exception", returncode |-> 0, stdout |-> <<>>,
      stderr |-> <<"boom">>]}

\* The [y/N] prompt of a confirmation.
ConfirmPrompt(message) == message \o " [y/N] "

\* ChatEnvironment.run_command(command), with ev what input() does at the
\* confirmation and proc what the command does if it is started.
run_command(command, ev, proc) ==
    LET prompt == [prompt |-> ConfirmPrompt("Run command '" \o command \o "'?"),
                   answer |-> ev]
    IN  IF ~get_user_confirmation(ev)
        THEN [raised |-> FALSE, impl |-> TRUE, terminates |-> FALSE,
              val |-> PyStr("Aborted by user. Command not executed."),
              io |-> [printed |-> <<>>, asked |-> <<prompt>>, started |-> <<>>]]
        ELSE LET output == Join(Strip(proc.stdout))
                 err == Join(Strip(proc.stderr))
                 result ==
                     IF proc.exc = "CalledProcessError"
                     THEN "Command failed with exit code "
                              \o IntToStr(proc.returncode) \o ".\nSTDOUT:\n"
                              \o Join(proc.stdout) \o "\nSTDERR:\n"
                              \o Join(proc.stderr)
                     ELSE IF proc.exc = "TimeoutExpired"
                     THEN "Error: Command timed out after 60 seconds."
                     ELSE IF proc.exc = "Exception"
                     THEN "An unexpected error occurred: " \o Join(proc.stderr)
                     ELSE IF output # "" THEN "STDOUT:\n" \o output
                     ELSE IF err # "" THEN "STDERR:\n" \o err
                     ELSE "Command executed successfully with no output."
             IN  [raised |-> FALSE, impl |-> TRUE, terminates |-> FALSE,
                  val |-> PyStr(result),
                  io |-> [printed |-> <<"Running command: " \o command>>,
                          asked |-> <<prompt>>,
                          started |-> <<command>>]]

\* ChatEnvironment.terminate(goodbye_message)
terminate(goodbye_message) ==
    [raised |-> FALSE, impl |-> TRUE, terminates |-> TRUE, val |-> PyNone,
     io |-> [printed |-> IF Truthy(goodbye_message) THEN <<goodbye_message>>
                         ELSE <<>>,
             asked |-> <<>>, started |-> <<>>]]

\* The tools of ChatEnvironment the model has, and its hook.
ChatEnvClass ==
    <<Member(<<"run_command">>,
             tool(Def(<<"run_command">>,
                      DocStr(<<"\n", " ", "Runs a shell command.", "\n", " ">>),
                      <<Self, Param("command", "str", FALSE)>>))),
      Member(<<"terminate">>,
             tool(Def(<<"terminate">>,
                      DocStr(<<"Terminates the conversation with the user">>),
                      <<Self, Param("goodbye_message", "Optional[str]", TRUE)>>))),
      Member(<<"_", "get_user_confirmation">>,
             Def(<<"_", "get_user_confirmation">>, DocNone,
                 <<Self, Param("message", "str", FALSE)>>)),
      Member(<<"handle_agent_response">>,
             Def(<<"handle_agent_response">>, DocNone,
                 <<Self, Param("agent_response", "LLMCompletionResponse", FALSE)>>))>>

\* func(self, **args) for the function registered as tool_info, with ev and
\* proc what the terminal and the shell do if they are reached.
ChatToolCall(tool_info, args, ev, proc) ==
    LET func == tool_info.function
        err == BindError("ChatEnvironment." \o Join(func.name),
                         Tail(func.params), args)
    IN  IF err # ""
        THEN [raised |-> TRUE, impl |-> FALSE, terminates |-> FALSE,
              val |-> PyStr(err), io |-> NoIO]
        ELSE IF func.name = <<"run_command">>
        THEN run_command(KwValue(args, "command"), ev, proc)
        ELSE terminate(IF "goodbye_message" \in KwNames(args)
                       THEN KwValue(args, "goodbye_message") ELSE None)

\* LLMCompletionResponse.content
Content(agent_response) ==
    IF "content" \in DOMAIN agent_response.assistant_message
    THEN agent_response.assistant_message.content
    ELSE None

\* except (KeyboardInterrupt, EOFError) with the end of input left out.
HookCatches_KeyboardInterruptOnly(ev) == ev.kind = "KeyboardInterrupt"

\* except (KeyboardInterrupt, EOFError) around the input loop of the hook
HookCatches(ev) == ev.kind \in {"KeyboardInterrupt", "EOFError"}

\* The loop left after the first line, whatever it is.
AsksAgain_Never(user_response) == FALSE

\* `while not user_response`: the line read is empty.
AsksAgain(user_response) == user_response = ""

\* The content test of the hook letting every response through.
HasContent_Always(response) == TRUE

\* `if not response: return None`, negated
HasContent(response) == Truthy(response)

\* `while not user_response: user_response = input("> ")` inside the try,
\* from the i-th thing input() does on; input past the script's end is the
\* end of input.
RECURSIVE InputLoop(_, _, _)
InputLoop(script, i, out) ==
    LET ev == IF i <= Len(script) THEN script[i] ELSE EOFError
        io == [out.io EXCEPT !.asked = Append(@, [prompt |-> "> ", answer |-> ev])]
    IN  IF ev.kind = "line"
        THEN IF AsksAgain(ev.text)
             THEN InputLoop(script, i + 1, [out EXCEPT !.io = io])
             ELSE [raised |-> FALSE, exc |-> "", ret |-> ev.text, io |-> io]
        ELSE IF HookCatches(ev)
        THEN [raised |-> FALSE, exc |-> "", ret |-> None, io |-> io]
        ELSE [raised |-> TRUE, exc |-> ev.kind, ret |-> None, io |-> io]

\* The hook from the content test on: the response is printed and the user
\* is asked.
AskUser(agent_response, script) ==
    LET response == Content(agent_response)
    IN  IF ~HasContent(response)
        THEN [raised |-> FALSE, exc |-> "", ret |-> None, io |-> NoIO]
        ELSE InputLoop(script, 1,
                 [raised |-> FALSE, exc |-> "", ret |-> None,
                  io |-> [printed |-> <<response>>, asked |-> <<>>,
                          started |-> <<>>]])

\* The hook with the terminate flag never looked at.
ChatEnvironment_handle_agent_response_NoFlag(flag, agent_response, script) ==
    AskUser(agent_response, script)

\* ChatEnvironment.handle_agent_response, with flag self.should_terminate and
\* script what input() does, call after call.
ChatEnvironment_handle_agent_response(flag, agent_response, script) ==
    IF flag THEN [raised |-> FALSE, exc |-> "", ret |-> None, io |-> NoIO]
    ELSE AskUser(agent_response, script)

\* ------------------------------------------------------------ the do command
\* The content of a reply is the string its lexemes spell; Lex reads the
\* lexemes back from a content of the model.
DoStrayText == <<"I cannot help with that.">>

SuggestionObject(command, risk_assessment, explanation, disclaimer) ==
    <<"{", "\"command\"", ":", command, ",",
      "\"risk_assessment\"", ":", risk_assessment, ",",
      "\"explanation\"", ":", explanation, ",",
      "\"disclaimer\"", ":", disclaimer, "}">>

\* The contents a final turn of the do run may have, as lexemes.
DoPayloads ==
    {SuggestionObject("\"ls -l\"", "0", "\"list files\"", "\"\""),
     SuggestionObject("\"rm -rf /\"", "2", "\"deletes everything\"", "\"Danger!\""),
     SuggestionObject("\"\"", "0", "\"list files\"", "\"\""),
     SuggestionObject("\"ls -l\"", "5", "\"list files\"", "\"\""),
     SuggestionObject("\"ls -l\"", "\"high\"", "\"list files\"", "\"Danger!\""),
     SuggestionObject("\"ls -l\"", "null", "\"list files\"", "\"\""),
     SuggestionObject("1", "1", "\"list files\"", "\"Danger!\""),
     SuggestionObject("\"ls -l\"", "1", "null", "1"),
     SuggestionObject("\"ls -l\"", "0", "\"list files\"", "\"\"")
         \o <<"trailing">>,
     <<"{", "\"command\"", ":", "\"ls -l\"", ",",
       "\"risk_assessment\"", ":", "0", ",">>,
     <<"{", "\"command\"", ":", "\"ls -l\"", "}">>,
     <<"{", "\"command\"", ":", "\"ls -l\"", ",",
       "\"risk_assessment\"", ":", "0", ",",
       "\"explanation\"", ":", "\"list files\"", ",",
       "\"disclaimer\"", ":", "\"\"", ",",
       "\"x\"", ":", "1", "}">>,
     <<"{", "}">>,
     <<"[", "]">>,
     <<"\"ls -l\"">>,
     <<"1">>,
     <<"null">>,
     DoStrayText}

Lex(content) == CHOOSE toks \in DoPayloads : Join(toks) = content

\* int(lexeme) for the number lexemes.
JsonInt(lexeme) ==
    CASE lexeme = "0" -> 0 [] lexeme = "1" -> 1 [] lexeme = "2" -> 2
      [] lexeme = "5" -> 5

\* The Python value json.loads gives for a scalar lexeme.
JsonValue(lexeme) ==
    IF lexeme \in JsonStringLexemes THEN PyStr(Unquote(lexeme))
    ELSE IF lexeme \in JsonNumberLexemes THEN PyInt(JsonInt(lexeme))
    ELSE PyNone

\* json.loads(response.content): a dict with its members, a list, a scalar,
\* or the JSONDecodeError.
json_loads(toks) ==
    IF Len(toks) = 1 /\ toks[1] \in JsonValueLexemes
    THEN [ok |-> TRUE, type |-> "scalar", value |-> {}]
    ELSE IF toks = <<"[", "]">>
    THEN [ok |-> TRUE, type |-> "list", value |-> {}]
    ELSE [ok |-> JsonLoads(toks).ok, type |-> "dict",
          value |-> JsonLoads(toks).value]

\* The fields of the dataclass CommandSuggestion.
CommandSuggestionFields ==
    {"command", "risk_assessment", "explanation", "disclaimer"}

\* CommandSuggestion(command=..., ...): the fields hold what they are given.
CommandSuggestion(command, risk_assessment, explanation, disclaimer) ==
    [kind |-> "CommandSuggestion", command |-> command,
     risk_assessment |-> risk_assessment, explanation |-> explanation,
     disclaimer |-> disclaimer]

\* data[name], for a name of the dict data
DataItem(data, name) ==
    JsonValue((CHOOSE p \in data.value : Unquote(p[1]) = name)[2])

\* CommandSuggestion(**data) binds: data is a mapping whose keys are the
\* four fields, no more and no fewer; a TypeError otherwise.
Binds(data) ==
    data.type = "dict" /\ KwNames(data.value) = CommandSuggestionFields

\* The suggestion of the except clause.
Fallback ==
    CommandSuggestion(PyStr(""), PyInt(0),
        PyStr("Error: The AI failed to return a valid command."), PyStr(""))

\* _suggest_shell_command from the return of agent.run on.
suggest_shell_command(agent_response) ==
    LET content == Content(agent_response)
    IN  IF Truthy(content)
        THEN LET data == json_loads(Lex(content))
             IN  IF ~data.ok THEN Fallback
                 ELSE IF ~Binds(data) THEN Fallback
                 ELSE CommandSuggestion(DataItem(data, "command"),
                          DataItem(data, "risk_assessment"),
                          DataItem(data, "explanation"),
                          DataItem(data, "disclaimer"))
        ELSE PyNone

\* Truth value of a Python value of the model.
PyTruthy(x) ==
    CASE x.kind = "str" -> x.val # ""
      [] x.kind = "int" -> x.val # 0
      [] OTHER -> FALSE

\* type(x).__name__
TypeName(x) ==
    CASE x.kind = "str" -> "str"
      [] x.kind = "int" -> "int"
      [] OTHER -> "NoneType"

\* How a call ends: it returns, raises an Exception, or leaves through
\* sys.exit(code).
Return == [kind |-> "return"]
Raise(exc, text) == [kind |-> "raise", exc |-> exc, text |-> text]
SystemExit(code) == [kind |-> "SystemExit", code |-> code]

\* The handler has not ended.
Running == [kind |-> "running"]

DoPrompt == "Do you want to run this command? [y/N] "

\* The answer taken for a yes when it starts with y.
do_confirmed_Yes(confirm) == Lower(confirm) \in {"y", "yes"}

\* `if confirm.lower() == "y":`
do_confirmed(confirm) == Lower(confirm) = "y"

\* do from the return of _suggest_shell_command on, with ev what input()
\* does at the prompt if it is reached.
do(result, ev) ==
    IF result.kind = "None" \/ ~PyTruthy(result.command)
    THEN [outcome |-> SystemExit(1),
          io |-> [printed |-> <<"Could not generate a command for the given prompt.">>,
                  asked |-> <<>>, started |-> <<>>]]
    ELSE LET shown ==
                 <<"Suggested command:\n  " \o Str(result.command) \o "\n",
                   "Explanation:\n  " \o Str(result.explanation) \o "\n">>
             risk == result.risk_assessment
         IN  IF risk.kind # "int"
             THEN [outcome |-> Raise("TypeError",
                       "'>' not supported between instances of '"
                           \o TypeName(risk) \o "' and 'int'"),
                   io |-> [printed |-> shown, asked |-> <<>>, started |-> <<>>]]
             ELSE LET printed ==
                          IF risk.val > 0 /\ PyTruthy(result.disclaimer)
                          THEN Append(shown, "Disclaimer:\n  "
                                   \o Str(result.disclaimer) \o "\n")
                          ELSE shown
                      asked == <<[prompt |-> DoPrompt, answer |-> ev]>>
                      quiet == [printed |-> printed, asked |-> asked,
                                started |-> <<>>]
                  IN  IF ev.kind # "line"
                      THEN [outcome |-> SystemExit(0), io |-> quiet]
                      ELSE IF ~do_confirmed(ev.text)
                      THEN [outcome |-> Return, io |-> quiet]
                      ELSE IF result.command.kind # "str"
                      THEN [outcome |-> Raise("TypeError",
                                "system() argument 1 must be str, not "
                                    \o TypeName(result.command)),
                            io |-> quiet]
                      ELSE [outcome |-> Return,
                            io |-> [quiet EXCEPT
                                       !.started = <<result.command.val>>]]

\* str(e) of what a call ended with.
ExcText(outcome) ==
    IF outcome.kind = "raise" THEN outcome.text ELSE IntToStr(outcome.code)

\* An except clause that takes every BaseException.
ExceptException_BaseException(outcome) ==
    outcome.kind \in {"raise", "SystemExit"}

\* `except Exception as e:` takes what the handler raised; SystemExit is no
\* Exception.
ExceptException(outcome) == outcome.kind = "raise"

\* run_cli from args.func(args) on, with handled how the handler ended and
\* what it did at the terminal.
run_cli(handled) ==
    IF ExceptException(handled.outcome)
    THEN [handler |-> handled.outcome, outcome |-> SystemExit(1),
          io |-> [handled.io EXCEPT
                     !.printed = Append(@, "Error: " \o ExcText(handled.outcome))]]
    ELSE [handler |-> handled.outcome, outcome |-> handled.outcome,
          io |-> handled.io]

\* The exit status of the process: the code of sys.exit, 0 after main returned.
ExitCode(outcome) == IF outcome.kind = "SystemExit" THEN outcome.code ELSE 0

\* ------------------------------------------------- files and directories
\* The paths of the model; Root stands for the directory relative paths
\* start from, which is always there.
Root == "."

FsPaths ==
    {"proj", "proj/src", "proj/src/main.py", "proj/notes.txt",
     "proj/notes.txt/x",
     "/original/path/README.md", "/fake/project/README.md"}

\* os.path.dirname(path)
Parent(path) ==
    CASE path = "proj/src" -> "proj"
      [] path = "proj/src/main.py" -> "proj/src"
      [] path = "proj/notes.txt" -> "proj"
      [] path = "proj/notes.txt/x" -> "proj/notes.txt"
      [] OTHER -> Root

Absent == [kind |-> "absent"]
Directory == [kind |-> "dir"]
File(content) == [kind |-> "file", content |-> content]

\* Nothing under the directories that are always there.
EmptyFs == [p \in FsPaths |-> Absent]

KindOf(files, path) == IF path = Root THEN "dir" ELSE files[path].kind

\* The existence test answering no for every path.
os_path_exists_Never(files, path) == FALSE

\* os.path.exists(path)
os_path_exists(files, path) == KindOf(files, path) # "absent"

\* os.path.isdir(path)
os_path_isdir(files, path) == KindOf(files, path) = "dir"

\* os.path.isfile(path)
os_path_isfile(files, path) == KindOf(files, path) = "file"

\* What a call on the filesystem gives: the files after it and the text of
\* the OSError, "" when there is none.
FsDone(files) == [errno |-> "", files |-> files]
FsError(files, errno) == [errno |-> errno, files |-> files]

FileExists(path) == "[Errno 17] File exists: '" \o path \o "'"
NoSuchFile(path) == "[Errno 2] No such file or directory: '" \o path \o "'"
NotADirectory(path) == "[Errno 20] Not a directory: '" \o path \o "'"
IsADirectory(path) == "[Errno 21] Is a directory: '" \o path \o "'"

\* os.mkdir(path)
os_mkdir(files, path) ==
    IF KindOf(files, path) # "absent" THEN FsError(files, FileExists(path))
    ELSE IF KindOf(files, Parent(path)) = "absent"
    THEN FsError(files, NoSuchFile(path))
    ELSE IF KindOf(files, Parent(path)) = "file"
    THEN FsError(files, NotADirectory(path))
    ELSE FsDone([files EXCEPT ![path] = Directory])

\* os.makedirs(path): the missing parents first (a parent found to exist in
\* the meantime is passed over), then the directory itself.
RECURSIVE os_makedirs(_, _)
os_makedirs(files, path) ==
    LET head == Parent(path)
        above == IF head # Root /\ KindOf(files, head) = "absent"
                 THEN os_makedirs(files, head)
                 ELSE FsDone(files)
    IN  IF above.errno # "" /\ above.errno # FileExists(head) THEN above
        ELSE os_mkdir(above.files, path)

\* open(path, "w") and f.write(content)
open_w(files, path, content) ==
    IF KindOf(files, path) = "dir" THEN FsError(files, IsADirectory(path))
    ELSE IF KindOf(files, Parent(path)) = "absent"
    THEN FsError(files, NoSuchFile(path))
    ELSE IF KindOf(files, Parent(path)) = "file"
    THEN FsError(files, NotADirectory(path))
    ELSE FsDone([files EXCEPT ![path] = File(content)])

\* The classes that have the two creation tools, and the word each prints
\* for a file it made.
FileToolClasses == {"BoilerplateEnvironment", "ChatEnvironment"}

FileWord(cls) == IF cls = "BoilerplateEnvironment" THEN "Wrote" ELSE "Created"

\* create_directory(path) of BoilerplateEnvironment and of ChatEnvironment
create_directory(cls, files, path) ==
    IF os_path_exists(files, path)
    THEN [val |-> "Error: Path '" \o path \o "' already exists.",
          files |-> files, printed |-> <<>>]
    ELSE LET made == os_makedirs(files, path)
         IN  IF made.errno = ""
             THEN [val |-> "Successfully created directory: " \o path,
                   files |-> made.files,
                   printed |-> <<"Created directory: " \o path>>]
             ELSE [val |-> "Error creating directory '" \o path \o "': "
                               \o made.errno,
                   files |-> made.files, printed |-> <<>>]

\* create_file(path, content) of BoilerplateEnvironment and of ChatEnvironment
create_file(cls, files, path, content) ==
    IF os_path_exists(files, path)
    THEN [val |-> "Error: File '" \o path \o "' already exists.",
          files |-> files, printed |-> <<>>]
    ELSE LET made == open_w(files, path, content)
         IN  IF made.errno = ""
             THEN [val |-> "Successfully created file: " \o path,
                   files |-> made.files,
                   printed |-> <<FileWord(cls) \o " file: " \o path>>]
             ELSE [val |-> "Error creating file '" \o path \o "': "
                               \o made.errno,
                   files |-> made.files, printed |-> <<>>]

\* The directory the command is started in and the project readmify is
\* given, as in the tests.
OriginalCwd == "/original/path"
ProjectPath == "/fake/project"

\* _do_summarize not called.
NotSummarized == [kind |-> "none"]

\* ----------------------------------------------------------------- gateway
CallA == [id |-> "call_1", type |-> "function",
          function |-> [name |-> "tool_a",
                        arguments |-> <<"{", "\"arg1\"", ":", "\"value1\"", "}">>]]
CallB == [id |-> "call_2", type |-> "function",
          function |-> [name |-> "tool_b", arguments |-> <<"{", "}">>]]
CallMissing == [id |-> "call_3", type |-> "function",
                function |-> [name |-> "no_such_tool", arguments |-> <<"{", "}">>]]
CallBadJson == [id |-> "call_4", type |-> "function",
                function |-> [name |-> "tool_a", arguments |-> <<"{", "bad">>]]

\* The assistant messages the gateway may answer with.
TextReplies ==
    {[role |-> "assistant", content |-> "Task complete."],
     [role |-> "assistant", content |-> None, tool_calls |-> <<>>]}

ToolReplies ==
    {[role |-> "assistant", content |-> None, tool_calls |-> <<CallA>>],
     [role |-> "assistant", tool_calls |-> <<CallA, CallB>>],
     [role |-> "assistant", content |-> None, tool_calls |-> <<CallMissing, CallB>>],
     [role |-> "assistant", tool_calls |-> <<CallB, CallBadJson>>]}

Replies == TextReplies \cup ToolReplies

SystemPrompts == {"", "You are a test assistant."}
UserTasks == {"Do a simple task."}

\* ------------------------------------------------------------------- state
VARIABLES
    env_class,       \* class of the Environment given to the Agent
    class_def,       \* the Environment subclass: the members its body declares
    env_pc,          \* the Environment: defined (class only) or built (instance)
    tools,           \* env.tools
    listings,        \* what the direct calls of env.get_tools returned
    env_calls,       \* direct calls of env.run_tool so far
    last_result,     \* outcome of the last direct call of env.run_tool
    messages,        \* Agent._messages
    pc,              \* where run is: idle, await_model, dispatch, await_cont, done, raised
    max_iterations,  \* argument of the current run
    iteration,       \* passes of the for loop completed in the current run
    response,        \* local variable of run
    tool_idx,        \* position of the next tool call of the turn
    error,           \* the exception run ended with
    requests,        \* message lists handed to llm.completion in the current run
    replies,         \* assistant messages the gateway answered with in the current run
    tool_log,        \* env.run_tool invocations of the current run
    impl_log,        \* tool implementations invoked in the current run
    hook_log,        \* returns of env.handle_agent_response in the current run
    run_base,        \* length of the transcript when the current run was called
    runs,            \* run calls so far
    budget_used,     \* iterations handed out to the runs so far
    should_terminate, \* ChatEnvironment.should_terminate
    io,              \* what the last tool call, hook call or command did at the terminal
    suggestion,      \* what _suggest_shell_command returned to do
    process,         \* how the command handler and run_cli ended
    kwargs,          \* keyword options the current run was called with
    legacy,          \* the Agent of src/ai/agent.py run beside the packaged one
    fs,              \* the files and directories the tools work on
    cwd,             \* the working directory of the process
    paths,           \* the paths _do_summarize is given
    summary          \* what _do_summarize has read and put in its prompt

env_vars == <<class_def, env_pc, tools, listings, env_calls, last_result>>

agent_vars == <<env_class, messages, pc, max_iterations, iteration, response,
                tool_idx, error, requests, replies, tool_log, impl_log,
                hook_log, run_base, runs, budget_used>>

chat_vars == <<should_terminate, io>>

cli_vars == <<suggestion, process>>

twin_vars == <<kwargs, legacy>>

host_vars == <<fs, cwd, paths, summary>>

vars == <<env_vars, agent_vars, chat_vars, cli_vars, twin_vars, host_vars>>

NoError == [exc |-> "", text |-> ""]

\* run called with no keyword options.
NoKwargs == {}

\* No Agent of src/ai/agent.py at work.
NoLegacy == [pc |-> "absent"]

\* No file made, the process where it was started, nothing to summarize.
HostIdle ==
    /\ fs = EmptyFs
    /\ cwd = OriginalCwd
    /\ paths = <<>>
    /\ summary = NotSummarized

\* No direct call of env.run_tool yet.
NoResult == [raised |-> FALSE, val |-> PyStr(""), impl |-> FALSE]

\* Agent.__init__ (with Environment.__init__ before it)
Init ==
    /\ env_class \in EnvClasses
    /\ class_def = AgentEnvClass
    /\ env_pc = "built"
    /\ tools = EnvironmentInit(class_def)
    /\ listings = <<>>
    /\ env_calls = 0
    /\ last_result = NoResult
    /\ \E system_prompt \in SystemPrompts :
           messages = IF system_prompt # ""
                      THEN <<format_system_message(system_prompt)>>
                      ELSE <<>>
    /\ pc = "idle"
    /\ max_iterations = 0
    /\ iteration = 0
    /\ response = LLMCompletionResponse(EmptyDict)
    /\ tool_idx = 0
    /\ error = NoError
    /\ requests = <<>>
    /\ replies = <<>>
    /\ tool_log = <<>>
    /\ impl_log = <<>>
    /\ hook_log = <<>>
    /\ run_base = 0
    /\ runs = 0
    /\ budget_used = 0
    /\ should_terminate = FALSE
    /\ io = NoIO
    /\ suggestion = PyNone
    /\ process = Running
    /\ kwargs = NoKwargs
    /\ legacy = NoLegacy
    /\ HostIdle

\* ---------------------------------------------------------------- Agent.run
\* The budget check with zero let through.
InvalidBudget_NegativeOnly(n) == n < 0

\* `if max_iterations <= 0:`
InvalidBudget(n) == n <= 0

\* The loop running one pass too many.
RangeHasNext_OffByOne(i, n) == i <= n

\* `for _ in range(max_iterations)`: another pass after i completed ones.
RangeHasNext(i, n) == i < n

\* The mark set on a response made anew.
MarkInterrupted_Fresh(r) ==
    [LLMCompletionResponse(EmptyDict) EXCEPT !.interrupted = TRUE]

\* The fall-through returning the response unmarked.
MarkInterrupted_Forgotten(r) == r

\* `response.interrupted = True`
MarkInterrupted(r) == [r EXCEPT !.interrupted = TRUE]

\* The exception text handed back without its prefix.
ErrorResult_NoPrefix(e) == PyStr(Str(e))

\* f"Error: {str(e)}"
ErrorResult(e) == PyStr("Error: " \o Str(e))

\* The end of one pass of the loop body that did not return: the next pass, or
\* the fall-through that marks the response and returns it.
LoopStep(r) ==
    /\ iteration' = iteration + 1
    /\ IF RangeHasNext(iteration + 1, max_iterations)
       THEN pc' = "await_model" /\ response' = r
       ELSE pc' = "done" /\ response' = MarkInterrupted(r)

\* The call of run up to the loop: the user message is appended, then the
\* budget is checked.
RunStep(user_task, n) ==
    /\ pc \in {"idle", "done", "raised"}
    /\ runs < MaxRuns
    /\ n <= MaxBudget - budget_used
    /\ runs' = runs + 1
    /\ budget_used' = IF n > 0 THEN budget_used + n ELSE budget_used
    /\ run_base' = Len(messages)
    /\ messages' = ListAppend(messages, format_user_message(user_task))
    /\ max_iterations' = n
    /\ iteration' = 0
    /\ tool_idx' = 0
    /\ requests' = <<>>
    /\ replies' = <<>>
    /\ tool_log' = <<>>
    /\ impl_log' = <<>>
    /\ hook_log' = <<>>
    /\ IF InvalidBudget(n)
       THEN /\ pc' = "raised"
            /\ error' = [exc |-> "ValueError",
                         text |-> "max_iterations must be a positive integer."]
            /\ response' = response
       ELSE /\ error' = NoError
            /\ IF RangeHasNext(0, n)
               THEN pc' = "await_model" /\ response' = LLMCompletionResponse(EmptyDict)
               ELSE pc' = "done"
                    /\ response' = MarkInterrupted(LLMCompletionResponse(EmptyDict))
    /\ UNCHANGED <<env_vars, env_class>>
    /\ UNCHANGED chat_vars
    /\ UNCHANGED cli_vars

\* A call of run without keyword options.
Run(user_task, n) ==
    /\ RunStep(user_task, n)
    /\ UNCHANGED twin_vars
    /\ UNCHANGED host_vars

\* The transcript handed over as the list object itself.
PassMessages_Alias(list) == [ref |-> "alias", value |-> list]

\* `messages=self._messages[:]`: the argument of llm.completion is a new list
\* with the entries the transcript has at the call.
PassMessages(list) == [ref |-> "copy", value |-> list]

\* An answer with neither content nor tool calls left out of the transcript.
AppendReply_SkipEmpty(list, r) ==
    IF ("content" \notin DOMAIN r.assistant_message
            \/ r.assistant_message.content \in {None, ""})
       /\ ~HasToolCalls(r)
    THEN list
    ELSE ListAppend(list, r.assistant_message)

\* The answer appended a second time.
AppendReply_Twice(list, r) ==
    ListAppend(ListAppend(list, r.assistant_message), r.assistant_message)

\* `self._messages.append(response.assistant_message)`
AppendReply(list, r) == ListAppend(list, r.assistant_message)

\* The try/except around env.run_tool: the value that is stringified into
\* the tool message.
ToolResult(outcome) ==
    IF outcome.raised THEN ErrorResult(outcome.val) ELSE outcome.val

\* One completion request, answered with the assistant message m: the
\* transcript is handed over as PassMessages gives it, the answer is appended, and the turn
\* goes to its tool calls or to the continuation hook.
CompletionStep(m) ==
    /\ pc = "await_model"
    /\ requests' = Append(requests, PassMessages(messages))
    /\ replies' = Append(replies, m)
    /\ response' = LLMCompletionResponse(m)
    /\ messages' = AppendReply(messages, response')
    /\ IF HasToolCalls(response')
       THEN pc' = "dispatch" /\ tool_idx' = 1
       ELSE pc' = "await_cont" /\ tool_idx' = tool_idx
    /\ UNCHANGED env_vars
    /\ UNCHANGED chat_vars
    /\ UNCHANGED cli_vars
    /\ UNCHANGED <<env_class, max_iterations, iteration, error, tool_log,
                   impl_log, hook_log, run_base, runs, budget_used>>

\* A completion request of the packaged Agent alone.
Completion(m) ==
    /\ CompletionStep(m)
    /\ UNCHANGED twin_vars
    /\ UNCHANGED host_vars

\* A completion request that fails in the gateway: run has no handler for it.
CompletionFailsStep ==
    /\ pc = "await_model"
    /\ requests' = Append(requests, PassMessages(messages))
    /\ pc' = "raised"
    /\ error' = [exc |-> "GatewayError", text |-> ""]
    /\ UNCHANGED env_vars
    /\ UNCHANGED chat_vars
    /\ UNCHANGED cli_vars
    /\ UNCHANGED <<env_class, messages, max_iterations, iteration, response,
                   tool_idx, replies, tool_log, impl_log, hook_log, run_base,
                   runs, budget_used>>

\* A failing completion request of the packaged Agent alone.
CompletionFails ==
    /\ CompletionFailsStep
    /\ UNCHANGED twin_vars
    /\ UNCHANGED host_vars

\* The loop over the tool calls left after its first pass.
ForHasNext_FirstOnly(idx, tool_calls) == FALSE

\* `for tool_call in response.tool_calls`: a call follows the one at idx.
ForHasNext(idx, tool_calls) == idx < Len(tool_calls)

\* The body of `for tool_call in response.tool_calls` for the call at
\* tool_idx, with b what the tool's implementation does if it is reached,
\* as far as the Agent and the tool table go.  json.loads runs before the
\* try block.
DispatchStep(b) ==
    /\ pc = "dispatch"
    /\ LET tool_call == ToolCallsOf(response)[tool_idx]
           tool_name == tool_call.function.name
           tool_args == JsonLoads(tool_call.function.arguments)
           tool_id   == tool_call.id
           outcome   == run_tool(tools, tool_name, b)
       IN  IF ~tool_args.ok
           THEN /\ pc' = "raised"
                /\ error' = [exc |-> "JSONDecodeError", text |-> ""]
                /\ UNCHANGED <<messages, iteration, response, tool_idx, tool_log,
                               impl_log>>
           ELSE /\ tool_log' = Append(tool_log,
                       [name |-> tool_name, args |-> tool_args.value,
                        call_id |-> tool_id, raised |-> outcome.raised,
                        text |-> Str(outcome.val),
                        msg_at |-> Len(messages) + 1])
                /\ impl_log' = IF outcome.impl THEN Append(impl_log, tool_name)
                               ELSE impl_log
                /\ messages' = ListAppend(messages,
                       format_tool_message(Str(ToolResult(outcome)), tool_id))
                /\ IF ForHasNext(tool_idx, ToolCallsOf(response))
                   THEN /\ tool_idx' = tool_idx + 1
                        /\ UNCHANGED <<pc, iteration, response>>
                   ELSE /\ tool_idx' = 0
                        /\ LoopStep(response)
                /\ error' = error
    /\ UNCHANGED env_vars
    /\ UNCHANGED <<env_class, max_iterations, requests, replies, hook_log,
                   run_base, runs, budget_used>>

\* The tool call the loop is at.
CurrentCall == ToolCallsOf(response)[tool_idx]

\* A tool call handled by an Environment whose tools leave the terminal and
\* the session alone.
DispatchTool(b) ==
    /\ pc = "dispatch"
    /\ b \in ToolBehaviours(CurrentCall.function.name)
    /\ DispatchStep(b)
    /\ UNCHANGED chat_vars
    /\ UNCHANGED cli_vars
    /\ UNCHANGED twin_vars
    /\ UNCHANGED host_vars

\* The else branch of the turn once the hook has returned new_instructions:
\* they are appended as the next user message, or the run ends.
HookStep(new_instructions) ==
    /\ pc = "await_cont"
    /\ hook_log' = Append(hook_log, new_instructions)
    /\ IF Truthy(new_instructions)
       THEN /\ messages' = ListAppend(messages, format_user_message(new_instructions))
            /\ LoopStep(response)
       ELSE /\ pc' = "done"
            /\ UNCHANGED <<messages, iteration, response>>
    /\ UNCHANGED env_vars
    /\ UNCHANGED <<env_class, max_iterations, tool_idx, error, requests,
                   replies, tool_log, impl_log, run_base, runs, budget_used>>

\* The hook of an Environment that leaves the terminal alone.
Continuation(new_instructions) ==
    /\ new_instructions \in HookReturns(env_class)
    /\ HookStep(new_instructions)
    /\ UNCHANGED chat_vars
    /\ UNCHANGED cli_vars
    /\ UNCHANGED twin_vars
    /\ UNCHANGED host_vars

AllToolBehaviours == UNION {ToolBehaviours(t) : t \in ToolNames}

Next ==
    \/ \E user_task \in UserTasks, n \in (0 - 1)..MaxBudget : Run(user_task, n)
    \/ \E m \in Replies : Completion(m)
    \/ CompletionFails
    \/ \E b \in AllToolBehaviours : DispatchTool(b)
    \/ \E h \in {None, "", FollowUp} : Continuation(h)

Spec == Init /\ [][Next]_vars

\* ------------------------------------------- an Environment used directly
\* Bounds of the classes and of the direct use of one Environment.
MaxMembers == 2
MaxParams == 2
MaxListings == 2
MaxCalls == 2

\* The sequences over S of length at most n that repeat no element.
Arrangements(S, n) ==
    {s \in UNION {[1..k -> S] : k \in 0..n} :
        \A i, j \in DOMAIN s : i # j => s[i] # s[j]}

\* Parameters a tool's signature is made of (after self).
ParamPool ==
    {Param("required_param", "str", FALSE),
     Param("optional_param", "int", TRUE),
     Param("untyped", NoHint, FALSE),
     Param("items", "List[str]", TRUE)}

\* sample_tool of the tests, over the signatures.
SampleTools ==
    {Member(<<"sample_tool">>,
            tool(Def(<<"sample_tool">>, DocStr(<<"A sample tool for testing.">>),
                     <<Self>> \o ps))) :
        ps \in Arrangements(ParamPool, MaxParams)}

\* list_items of the tests, its docstring on lines of its own.
ListItems ==
    tool(Def(<<"list_items">>,
             DocStr(<<"\n", " ", "Lists items in a category.", "\n", " ">>),
             <<Self, Param("category", "str", FALSE)>>))

\* A tool with a parameter of every type of the table, of two other types
\* and of none.
TypedTool ==
    tool(Def(<<"typed_tool">>, DocStr(<<"One parameter of each type.">>),
             <<Self, Param("s", "str", FALSE), Param("i", "int", FALSE),
               Param("x", "float", TRUE), Param("b", "bool", TRUE),
               Param("l", "list", FALSE), Param("d", "dict", TRUE),
               Param("o", "Optional[str]", TRUE), Param("u", NoHint, FALSE)>>))

\* Docstrings with no text in them.
BlankDocs == {DocNone, DocStr(<<>>), DocStr(<<" ", "\n", " ">>)}

NoDocTools ==
    {Member(<<"no_doc_tool">>, tool(Def(<<"no_doc_tool">>, doc, <<Self>>))) :
        doc \in BlankDocs}

\* The members a subclass body is made of: tools, a second name for a tool
\* (fetch = list_items), a tool under the name of the instance's own dict,
\* a private tool, and plain methods.
MemberPool ==
    SampleTools \cup NoDocTools \cup
    {Member(<<"list_items">>, ListItems),
     Member(<<"fetch">>, ListItems),
     Member(<<"typed_tool">>, TypedTool),
     Member(<<"tools">>,
            tool(Def(<<"tools">>, DocStr(<<"Lists the tools.">>), <<Self>>))),
     Member(<<"_", "private_tool">>,
            tool(Def(<<"_", "private_tool">>, DocStr(<<"Hidden.">>), <<Self>>))),
     Member(<<"_", "helper">>, Def(<<"_", "helper">>, DocNone, <<Self>>)),
     Member(<<"plain_method">>,
            Def(<<"plain_method">>, DocStr(<<"Not a tool.">>), <<Self>>))}

\* Class bodies: each name declared once.
Classes ==
    {c \in Arrangements(MemberPool, MaxMembers) :
        \A i, j \in DOMAIN c : i # j => c[i].attr # c[j].attr}

\* Names env.run_tool is called with directly.
RunNames == {"sample_tool", "no_doc_tool", "_private_tool", "no_such_tool"}

\* A subclass of Environment is defined; no instance yet, no Agent at work.
InitEnv ==
    /\ class_def \in Classes
    /\ env_pc = "defined"
    /\ tools = <<>>
    /\ listings = <<>>
    /\ env_calls = 0
    /\ last_result = NoResult
    /\ env_class = "Environment"
    /\ messages = <<>>
    /\ pc = "idle"
    /\ max_iterations = 0
    /\ iteration = 0
    /\ response = LLMCompletionResponse(EmptyDict)
    /\ tool_idx = 0
    /\ error = NoError
    /\ requests = <<>>
    /\ replies = <<>>
    /\ tool_log = <<>>
    /\ impl_log = <<>>
    /\ hook_log = <<>>
    /\ run_base = 0
    /\ runs = 0
    /\ budget_used = 0
    /\ should_terminate = FALSE
    /\ io = NoIO
    /\ suggestion = PyNone
    /\ process = Running
    /\ kwargs = NoKwargs
    /\ legacy = NoLegacy
    /\ HostIdle

\* Environment.__init__
EnvInit ==
    /\ env_pc = "defined"
    /\ env_pc' = "built"
    /\ tools' = EnvironmentInit(class_def)
    /\ UNCHANGED <<class_def, listings, env_calls, last_result>>
    /\ UNCHANGED agent_vars
    /\ UNCHANGED chat_vars
    /\ UNCHANGED cli_vars
    /\ UNCHANGED twin_vars
    /\ UNCHANGED host_vars

\* env.get_tools()
GetTools ==
    /\ env_pc = "built"
    /\ Len(listings) < MaxListings
    /\ listings' = Append(listings, get_tools(tools))
    /\ UNCHANGED <<class_def, env_pc, tools, env_calls, last_result>>
    /\ UNCHANGED agent_vars
    /\ UNCHANGED chat_vars
    /\ UNCHANGED cli_vars
    /\ UNCHANGED twin_vars
    /\ UNCHANGED host_vars

\* env.run_tool(tool_name, {}), with b what the implementation does.
EnvRunTool(tool_name, b) ==
    /\ env_pc = "built"
    /\ env_calls < MaxCalls
    /\ b \in ToolBehaviours(tool_name)
    /\ env_calls' = env_calls + 1
    /\ last_result' = run_tool(tools, tool_name, b)
    /\ UNCHANGED <<class_def, env_pc, tools, listings>>
    /\ UNCHANGED agent_vars
    /\ UNCHANGED chat_vars
    /\ UNCHANGED cli_vars
    /\ UNCHANGED twin_vars
    /\ UNCHANGED host_vars

NextEnv ==
    \/ EnvInit
    \/ GetTools
    \/ \E tool_name \in RunNames, b \in AllToolBehaviours : EnvRunTool(tool_name, b)

SpecEnv == InitEnv /\ [][NextEnv]_vars

\* ------------------------------------------------ a ChatEnvironment session
CallRun == [id |-> "call_5", type |-> "function",
            function |-> [name |-> "run_command",
                          arguments |-> <<"{", "\"command\"", ":", "\"ls\"", "}">>]]
CallRunNoArgs == [id |-> "call_6", type |-> "function",
                  function |-> [name |-> "run_command", arguments |-> <<"{", "}">>]]
CallTerminate == [id |-> "call_7", type |-> "function",
                  function |-> [name |-> "terminate", arguments |-> <<"{", "}">>]]
CallTerminateBye ==
    [id |-> "call_8", type |-> "function",
     function |-> [name |-> "terminate",
                   arguments |-> <<"{", "\"goodbye_message\"", ":", "\"Bye\"", "}">>]]

\* The assistant messages the gateway may answer a chat with.
ChatReplies ==
    {[role |-> "assistant", content |-> "Here you go."],
     [role |-> "assistant", content |-> None],
     [role |-> "assistant", content |-> ""],
     [role |-> "assistant"],
     [role |-> "assistant", content |-> None, tool_calls |-> <<CallRun>>],
     [role |-> "assistant", content |-> "Goodbye.", tool_calls |-> <<CallTerminate>>],
     [role |-> "assistant", content |-> None,
      tool_calls |-> <<CallRunNoArgs, CallTerminateBye>>]}

ChatSystemPrompt == "You are a general-purpose AI assistant."
ChatPrompts == {"hello agent"}

\* What input() may do at a confirmation prompt.
ConfirmEvents ==
    {Line("y"), Line("Y"), Line("n"), Line(""), Line("yes"),
     KeyboardInterrupt, EOFError}

\* What input() may do, call after call, at the prompt of the hook: empty
\* lines, then an instruction or an interrupt.
Scripts ==
    {[i \in 1..k |-> Line("")] \o <<last>> :
        k \in 0..MaxEmptyLines,
        last \in {Line("a follow-up question"), KeyboardInterrupt, EOFError}}

\* chat() up to the call of run: the Environment and the Agent are there.
InitChat ==
    /\ class_def = ChatEnvClass
    /\ env_pc = "built"
    /\ tools = EnvironmentInit(class_def)
    /\ listings = <<>>
    /\ env_calls = 0
    /\ last_result = NoResult
    /\ env_class = "ChatEnvironment"
    /\ messages = <<format_system_message(ChatSystemPrompt)>>
    /\ pc = "idle"
    /\ max_iterations = 0
    /\ iteration = 0
    /\ response = LLMCompletionResponse(EmptyDict)
    /\ tool_idx = 0
    /\ error = NoError
    /\ requests = <<>>
    /\ replies = <<>>
    /\ tool_log = <<>>
    /\ impl_log = <<>>
    /\ hook_log = <<>>
    /\ run_base = 0
    /\ runs = 0
    /\ budget_used = 0
    /\ should_terminate = FALSE
    /\ io = NoIO
    /\ suggestion = PyNone
    /\ process = Running
    /\ kwargs = NoKwargs
    /\ legacy = NoLegacy
    /\ HostIdle

\* chat(): the one run of the session.  The budgets of the model stand for
\* the 10000 iterations chat gives it.
Chat(user_prompt, n) ==
    /\ runs = 0
    /\ n >= 1
    /\ Run(user_prompt, n)

\* A tool call of the turn handled by the ChatEnvironment, with ev what
\* input() does and proc what the shell command does if they are reached.
ChatDispatchTool(ev, proc) ==
    /\ pc = "dispatch"
    /\ LET tool_name == CurrentCall.function.name
           tool_args == JsonLoads(CurrentCall.function.arguments)
           b == IF tool_args.ok /\ ToolFound(tools, tool_name)
                THEN ChatToolCall(DictItem(tools, tool_name), tool_args.value,
                                  ev, proc)
                ELSE [raised |-> FALSE, impl |-> FALSE, terminates |-> FALSE,
                      val |-> PyNone, io |-> NoIO]
       IN  /\ DispatchStep(b)
           /\ should_terminate' = (should_terminate \/ b.terminates)
           /\ io' = b.io
    /\ UNCHANGED cli_vars
    /\ UNCHANGED twin_vars
    /\ UNCHANGED host_vars

\* The hook of the ChatEnvironment, with script what input() does.
ChatContinuation(script) ==
    /\ pc = "await_cont"
    /\ LET out == ChatEnvironment_handle_agent_response(should_terminate,
                                                        response, script)
       IN  /\ io' = out.io
           /\ IF out.raised
              THEN /\ pc' = "raised"
                   /\ error' = [exc |-> out.exc, text |-> ""]
                   /\ UNCHANGED env_vars
                   /\ UNCHANGED <<env_class, messages, max_iterations, iteration,
                                  response, tool_idx, requests, replies, tool_log,
                                  impl_log, hook_log, run_base, runs, budget_used>>
              ELSE HookStep(out.ret)
    /\ UNCHANGED should_terminate
    /\ UNCHANGED cli_vars
    /\ UNCHANGED twin_vars
    /\ UNCHANGED host_vars

NextChat ==
    \/ \E user_prompt \in ChatPrompts, n \in 1..MaxBudget : Chat(user_prompt, n)
    \/ \E m \in ChatReplies : Completion(m)
    \/ CompletionFails
    \/ \E ev \in ConfirmEvents, proc \in ProcOutcomes : ChatDispatchTool(ev, proc)
    \/ \E script \in Scripts : ChatContinuation(script)

SpecChat == InitChat /\ [][NextChat]_vars

\* ------------------------------------------------------ a run of `assist do`
ValidSuggestion == SuggestionObject("\"ls -l\"", "0", "\"list files\"", "\"\"")

\* The assistant messages the gateway may answer the do run with.
DoReplies ==
    {[role |-> "assistant", content |-> Join(toks)] : toks \in DoPayloads}
        \cup {[role |-> "assistant", content |-> None],
              [role |-> "assistant", content |-> ""],
              [role |-> "assistant", content |-> None,
               tool_calls |-> <<CallMissing>>],
              [role |-> "assistant", content |-> Join(ValidSuggestion),
               tool_calls |-> <<CallMissing>>]}

\* The opening of SYSTEM_PROMPT stands for the whole of it.
DoSystemPrompt ==
    "You are a highly experienced Unix system administrator and command line expert."

DoTasks == {"list all files", "delete all files"}

ConfigNotFound ==
    Raise("FileNotFoundError", "[Errno 2] No such file or directory: 'config.json'")

\* run_cli has parsed `do <prompt>` and calls the handler; Environment() has
\* no tools.
InitDo ==
    /\ class_def = <<>>
    /\ env_pc = "built"
    /\ tools = EnvironmentInit(class_def)
    /\ listings = <<>>
    /\ env_calls = 0
    /\ last_result = NoResult
    /\ env_class = "Environment"
    /\ messages = <<format_system_message(DoSystemPrompt)>>
    /\ pc = "idle"
    /\ max_iterations = 0
    /\ iteration = 0
    /\ response = LLMCompletionResponse(EmptyDict)
    /\ tool_idx = 0
    /\ error = NoError
    /\ requests = <<>>
    /\ replies = <<>>
    /\ tool_log = <<>>
    /\ impl_log = <<>>
    /\ hook_log = <<>>
    /\ run_base = 0
    /\ runs = 0
    /\ budget_used = 0
    /\ should_terminate = FALSE
    /\ io = NoIO
    /\ suggestion = PyNone
    /\ process = Running
    /\ kwargs = NoKwargs
    /\ legacy = NoLegacy
    /\ HostIdle

\* The process ends as run_cli leaves it after the handler ended as handled.
EndProcess(handled) ==
    /\ process' = [handler |-> run_cli(handled).handler,
                   outcome |-> run_cli(handled).outcome]
    /\ io' = run_cli(handled).io

\* The wrapper of the handler fails in _validate_ai_config: there is no
\* config.json to open.
ConfigFails ==
    /\ process = Running
    /\ runs = 0
    /\ EndProcess([outcome |-> ConfigNotFound, io |-> NoIO])
    /\ UNCHANGED <<env_vars, agent_vars, should_terminate, suggestion>>
    /\ UNCHANGED twin_vars
    /\ UNCHANGED host_vars

\* _suggest_shell_command up to agent.run(..., max_iterations=1, ...)
DoRun(natual_language_description) ==
    /\ process = Running
    /\ runs = 0
    /\ RunStep(natual_language_description, 1)
    /\ kwargs' = {<<"response_format", "json_schema">>}
    /\ UNCHANGED legacy
    /\ UNCHANGED host_vars

\* agent.run has returned: the rest of _suggest_shell_command, then do with
\* ev what input() does at its prompt, then run_cli.
DoSuggested(ev) ==
    /\ process = Running
    /\ pc = "done"
    /\ suggestion' = suggest_shell_command(response)
    /\ EndProcess(do(suggestion', ev))
    /\ UNCHANGED <<env_vars, agent_vars, should_terminate>>
    /\ UNCHANGED twin_vars
    /\ UNCHANGED host_vars

\* agent.run has raised: neither _suggest_shell_command nor do has a handler
\* for it, run_cli has.
DoRaised ==
    /\ process = Running
    /\ pc = "raised"
    /\ EndProcess([outcome |-> Raise(error.exc, error.text), io |-> NoIO])
    /\ UNCHANGED <<env_vars, agent_vars, should_terminate, suggestion>>
    /\ UNCHANGED twin_vars
    /\ UNCHANGED host_vars

NextDo ==
    \/ ConfigFails
    \/ \E task \in DoTasks : DoRun(task)
    \/ \E m \in DoReplies : Completion(m)
    \/ CompletionFails
    \/ \E b \in AllToolBehaviours : DispatchTool(b)
    \/ \E h \in {None} : Continuation(h)
    \/ \E ev \in ConfirmEvents : DoSuggested(ev)
    \/ DoRaised

SpecDo == InitDo /\ [][NextDo]_vars

\* ------------------------------------- the two Agents, side by side
\* The options Agent.run of src/ai/agent.py gives every completion request.
LegacyOptions == {<<"max_tokens", 1024>>}

\* `messages=self._messages` of src/ai/agent.py: the list object itself goes
\* to the gateway, with max_tokens=1024.
LegacyPassMessages(list) ==
    [ref |-> "alias", value |-> list, options |-> LegacyOptions]

\* Agent.__init__ of src/ai/agent.py
LegacyAgentInit(system_prompt) ==
    [messages |-> IF system_prompt # ""
                  THEN <<format_system_message(system_prompt)>>
                  ELSE <<>>,
     pc |-> "idle", max_iterations |-> 0, iteration |-> 0,
     response |-> LLMCompletionResponse(EmptyDict), tool_idx |-> 0,
     error |-> NoError, requests |-> <<>>, tool_log |-> <<>>,
     hook_log |-> <<>>]

\* The loop of the legacy run never leaving for the budget.
LegacyLoopStep_NoBudget(l, r) ==
    [l EXCEPT !.iteration = @ + 1, !.pc = "await_model", !.response = r]

\* The end of a pass of the legacy loop that did not return: the next pass,
\* or the fall-through `return response`.
LegacyLoopStep(l, r) ==
    IF RangeHasNext(l.iteration + 1, l.max_iterations)
    THEN [l EXCEPT !.iteration = @ + 1, !.pc = "await_model", !.response = r]
    ELSE [l EXCEPT !.iteration = @ + 1, !.pc = "done", !.response = r]

\* run of src/ai/agent.py up to the loop
LegacyRun(l, user_task, n) ==
    LET called == [l EXCEPT
                      !.messages = ListAppend(@, format_user_message(user_task)),
                      !.max_iterations = n, !.iteration = 0, !.tool_idx = 0,
                      !.requests = <<>>, !.tool_log = <<>>, !.hook_log = <<>>]
    IN  IF InvalidBudget(n)
        THEN [called EXCEPT
                 !.pc = "raised",
                 !.error = [exc |-> "ValueError",
                            text |-> "max_iterations must be a positive integer."]]
        ELSE [called EXCEPT
                 !.pc = "await_model", !.error = NoError,
                 !.response = LLMCompletionResponse(EmptyDict)]

\* One completion request of the legacy run, answered with m.
LegacyCompletion(l, m) ==
    IF l.pc # "await_model" THEN l
    ELSE LET r == LLMCompletionResponse(m)
         IN  [l EXCEPT
                 !.requests = Append(@, LegacyPassMessages(l.messages)),
                 !.response = r,
                 !.messages = AppendReply(@, r),
                 !.pc = IF HasToolCalls(r) THEN "dispatch" ELSE "await_cont",
                 !.tool_idx = IF HasToolCalls(r) THEN 1 ELSE @]

\* A completion request of the legacy run that fails in the gateway.
LegacyCompletionFails(l) ==
    IF l.pc # "await_model" THEN l
    ELSE [l EXCEPT
             !.requests = Append(@, LegacyPassMessages(l.messages)),
             !.pc = "raised",
             !.error = [exc |-> "GatewayError", text |-> ""]]

\* The body of the legacy `for tool_call in response.tool_calls` for the
\* call at tool_idx, with b what the tool's implementation does.
LegacyDispatch(l, tool_table, b) ==
    IF l.pc # "dispatch" THEN l
    ELSE LET tool_call == ToolCallsOf(l.response)[l.tool_idx]
             tool_name == tool_call.function.name
             tool_args == JsonLoads(tool_call.function.arguments)
             tool_id   == tool_call.id
             outcome   == run_tool(tool_table, tool_name, b)
             told == [l EXCEPT
                         !.tool_log = Append(@,
                             [name |-> tool_name, args |-> tool_args.value,
                              call_id |-> tool_id, raised |-> outcome.raised,
                              text |-> Str(outcome.val),
                              msg_at |-> Len(l.messages) + 1]),
                         !.messages = ListAppend(@,
                             format_tool_message(Str(ToolResult(outcome)), tool_id))]
         IN  IF ~tool_args.ok
             THEN [l EXCEPT !.pc = "raised",
                            !.error = [exc |-> "JSONDecodeError", text |-> ""]]
             ELSE IF ForHasNext(l.tool_idx, ToolCallsOf(l.response))
             THEN [told EXCEPT !.tool_idx = @ + 1]
             ELSE LegacyLoopStep([told EXCEPT !.tool_idx = 0], l.response)

\* The else branch of the legacy turn once the hook has returned.
LegacyHook(l, new_instructions) ==
    IF l.pc # "await_cont" THEN l
    ELSE LET heard == [l EXCEPT !.hook_log = Append(@, new_instructions)]
         IN  IF Truthy(new_instructions)
             THEN LegacyLoopStep(
                      [heard EXCEPT
                          !.messages = ListAppend(@,
                              format_user_message(new_instructions))],
                      l.response)
             ELSE [heard EXCEPT !.pc = "done"]

\* The keyword options a caller may give the packaged run.
KwargsGiven == {NoKwargs, LegacyOptions}

\* The assistant messages the gateway answers the pair with.
TwinReplies ==
    {[role |-> "assistant", content |-> "Task complete."],
     [role |-> "assistant", content |-> None, tool_calls |-> <<CallA>>],
     [role |-> "assistant", tool_calls |-> <<CallMissing, CallB>>],
     [role |-> "assistant", tool_calls |-> <<CallB, CallBadJson>>]}

\* Both Agents are constructed with the same Environment and system prompt.
InitTwin ==
    /\ env_class = "Subclass"
    /\ class_def = AgentEnvClass
    /\ env_pc = "built"
    /\ tools = EnvironmentInit(class_def)
    /\ listings = <<>>
    /\ env_calls = 0
    /\ last_result = NoResult
    /\ \E system_prompt \in SystemPrompts :
           /\ messages = IF system_prompt # ""
                         THEN <<format_system_message(system_prompt)>>
                         ELSE <<>>
           /\ legacy = LegacyAgentInit(system_prompt)
    /\ pc = "idle"
    /\ max_iterations = 0
    /\ iteration = 0
    /\ response = LLMCompletionResponse(EmptyDict)
    /\ tool_idx = 0
    /\ error = NoError
    /\ requests = <<>>
    /\ replies = <<>>
    /\ tool_log = <<>>
    /\ impl_log = <<>>
    /\ hook_log = <<>>
    /\ run_base = 0
    /\ runs = 0
    /\ budget_used = 0
    /\ should_terminate = FALSE
    /\ io = NoIO
    /\ suggestion = PyNone
    /\ process = Running
    /\ kwargs = NoKwargs
    /\ HostIdle

\* Both runs are called with the same task and budget, the packaged one
\* with the keyword options kw.
TwinRun(user_task, n, kw) ==
    /\ RunStep(user_task, n)
    /\ kwargs' = kw
    /\ legacy' = LegacyRun(legacy, user_task, n)
    /\ UNCHANGED host_vars

\* The gateway answers the request of each with m.
TwinCompletion(m) ==
    /\ CompletionStep(m)
    /\ legacy' = LegacyCompletion(legacy, m)
    /\ UNCHANGED kwargs
    /\ UNCHANGED host_vars

\* The gateway fails the request of each.
TwinCompletionFails ==
    /\ CompletionFailsStep
    /\ legacy' = LegacyCompletionFails(legacy)
    /\ UNCHANGED kwargs
    /\ UNCHANGED host_vars

\* The tool call each is at does b.
TwinDispatchTool(b) ==
    /\ pc = "dispatch"
    /\ b \in ToolBehaviours(CurrentCall.function.name)
    /\ DispatchStep(b)
    /\ legacy' = LegacyDispatch(legacy, tools, b)
    /\ UNCHANGED <<chat_vars, cli_vars, kwargs>>
    /\ UNCHANGED host_vars

\* The hook returns new_instructions to each.
TwinContinuation(new_instructions) ==
    /\ new_instructions \in HookReturns(env_class)
    /\ HookStep(new_instructions)
    /\ legacy' = LegacyHook(legacy, new_instructions)
    /\ UNCHANGED <<chat_vars, cli_vars, kwargs>>
    /\ UNCHANGED host_vars

NextTwin ==
    \/ \E user_task \in UserTasks, n \in 0..MaxBudget, kw \in KwargsGiven :
           TwinRun(user_task, n, kw)
    \/ \E m \in TwinReplies : TwinCompletion(m)
    \/ TwinCompletionFails
    \/ \E b \in AllToolBehaviours : TwinDispatchTool(b)
    \/ \E h \in {None, "", FollowUp} : TwinContinuation(h)

SpecTwin == InitTwin /\ [][NextTwin]_vars

\* --------------------------------------- the file creation tools, called
\* The two tools as the classes declare them.
FileTools ==
    <<Member(<<"create_directory">>,
             tool(Def(<<"create_directory">>,
                      DocStr(<<"\n", " ", "Creates a directory at the specified path.",
                               "\n", " ",
                               "Fails if the directory already exists or if the parent does not exist.",
                               "\n", " ">>),
                      <<Self, Param("path", "str", FALSE)>>))),
      Member(<<"create_file">>,
             tool(Def(<<"create_file">>,
                      DocStr(<<"\n", " ",
                               "Creates a file at the specified path with the given content.",
                               "\n", " ", "Fails if the file already exists.",
                               "\n", " ">>),
                      <<Self, Param("path", "str", FALSE),
                        Param("content", "str", FALSE)>>)))>>

FileToolsClass(cls) ==
    IF cls = "ChatEnvironment" THEN ChatEnvClass \o FileTools ELSE FileTools

\* What is there before the first call: nothing, or a project directory with
\* a source directory and a file of notes in it.
InitialFiles ==
    {EmptyFs,
     [EmptyFs EXCEPT !["proj"] = Directory,
                     !["proj/src"] = Directory,
                     !["proj/notes.txt"] = File("old notes")]}

\* The paths and contents the calls are made with.
CreatePaths ==
    {"proj", "proj/src", "proj/src/main.py", "proj/notes.txt", "proj/notes.txt/x"}
CreateContents == {"print('hi')", ""}

InitFiles ==
    /\ env_class \in FileToolClasses
    /\ class_def = FileToolsClass(env_class)
    /\ env_pc = "built"
    /\ tools = EnvironmentInit(class_def)
    /\ listings = <<>>
    /\ env_calls = 0
    /\ last_result = NoResult
    /\ messages = <<>>
    /\ pc = "idle"
    /\ max_iterations = 0
    /\ iteration = 0
    /\ response = LLMCompletionResponse(EmptyDict)
    /\ tool_idx = 0
    /\ error = NoError
    /\ requests = <<>>
    /\ replies = <<>>
    /\ tool_log = <<>>
    /\ impl_log = <<>>
    /\ hook_log = <<>>
    /\ run_base = 0
    /\ runs = 0
    /\ budget_used = 0
    /\ should_terminate = FALSE
    /\ io = NoIO
    /\ suggestion = PyNone
    /\ process = Running
    /\ kwargs = NoKwargs
    /\ legacy = NoLegacy
    /\ fs \in InitialFiles
    /\ cwd = OriginalCwd
    /\ paths = <<>>
    /\ summary = NotSummarized

\* env.run_tool(tool_name, args) for a tool that did out.
FileToolCalled(tool_name, out) ==
    /\ env_pc = "built"
    /\ env_calls < MaxCalls
    /\ env_calls' = env_calls + 1
    /\ last_result' = run_tool(tools, tool_name,
                          [raised |-> FALSE, val |-> PyStr(out.val), impl |-> TRUE])
    /\ fs' = out.files
    /\ io' = [NoIO EXCEPT !.printed = out.printed]
    /\ UNCHANGED <<class_def, env_pc, tools, listings>>
    /\ UNCHANGED <<agent_vars, should_terminate, cli_vars, twin_vars, cwd,
                   paths, summary>>

\* env.run_tool("create_directory", {"path": path})
CreateDirectory(path) ==
    FileToolCalled("create_directory", create_directory(env_class, fs, path))

\* env.run_tool("create_file", {"path": path, "content": content})
CreateFile(path, content) ==
    FileToolCalled("create_file", create_file(env_class, fs, path, content))

NextFiles ==
    \/ \E path \in CreatePaths : CreateDirectory(path)
    \/ \E path \in CreatePaths, content \in CreateContents :
           CreateFile(path, content)

SpecFiles == InitFiles /\ [][NextFiles]_vars

\* ----------------------------------------------------- a readmify session
\* The tools of ReadmifyEnvironment the model has.
ReadmifyEnvClass ==
    <<Member(<<"list_files_and_dirs">>,
             tool(Def(<<"list_files_and_dirs">>,
                      DocStr(<<"Lists all files and directories in a given path. If no path is provided, defaults to the current directory.">>),
                      <<Self, Param("path", "str", TRUE)>>))),
      Member(<<"read_file">>,
             tool(Def(<<"read_file">>,
                      DocStr(<<"Reads the entire content of a specified file.">>),
                      <<Self, Param("path", "str", FALSE)>>))),
      Member(<<"write_readme">>,
             tool(Def(<<"write_readme">>,
                      DocStr(<<"\n", " ",
                               "Writes the provided markdown content to a README.md file in the project directory.",
                               "\n", " ",
                               "If a README.md already exists, it will ask for confirmation before overwriting.",
                               "\n", " ">>),
                      <<Self, Param("content", "str", FALSE)>>)))>>

\* The file a relative path names in the working directory wd.
Resolve(wd, path) == wd \o "/" \o path

\* os.path.join(self.path, readme_path)
ReadmeOfProject == Resolve(ProjectPath, "README.md")

\* What a tool of the ReadmifyEnvironment did: its return value or the
\* exception it raised (escapes: one that is no Exception), the files and the
\* working directory it leaves, and what it did at the terminal.
Returned(text, files, wd, io_done) ==
    [raised |-> FALSE, escapes |-> FALSE, impl |-> TRUE, val |-> PyStr(text),
     files |-> files, cwd |-> wd, io |-> io_done]
Raised(text, files, wd, io_done) ==
    [raised |-> TRUE, escapes |-> FALSE, impl |-> TRUE, val |-> PyStr(text),
     files |-> files, cwd |-> wd, io |-> io_done]
Escaped(files, wd, io_done) ==
    [raised |-> TRUE, escapes |-> TRUE, impl |-> TRUE,
     val |-> PyStr("KeyboardInterrupt"),
     files |-> files, cwd |-> wd, io |-> io_done]

Shown(text) == [NoIO EXCEPT !.printed = <<text>>]

\* list_files_and_dirs(path) for the path ".": the names in the working
\* directory.
list_files_and_dirs(files, wd, path) ==
    IF path # Root
    THEN Returned("Error: '" \o path \o "' is not a valid directory.",
                  files, wd, NoIO)
    ELSE Returned(IF os_path_isfile(files, Resolve(wd, "README.md"))
                  THEN "README.md" ELSE "",
                  files, wd, Shown("Listing files in: " \o path))

\* read_file(path)
read_file(files, wd, path) ==
    IF Resolve(wd, path) \notin FsPaths
           \/ ~os_path_isfile(files, Resolve(wd, path))
    THEN Returned("Error: '" \o path \o "' is not a file.", files, wd, NoIO)
    ELSE Returned(files[Resolve(wd, path)].content, files, wd,
                  Shown("Reading file: " \o path))

\* The try block of write_readme, in the working directory wd.
WriteReadme(files, wd, content, io_done) ==
    LET made == open_w(files, Resolve(wd, "README.md"), content)
    IN  IF made.errno = ""
        THEN Returned("Successfully wrote README.md to " \o ReadmeOfProject,
                      made.files, wd,
                      [io_done EXCEPT !.printed =
                          <<"Successfully wrote README.md to: "
                                \o ReadmeOfProject>>])
        ELSE Returned("Error writing README.md: " \o made.errno,
                      made.files, wd, io_done)

\* os.chdir(self.path) after the prompt
ChdirBack(wd) == ProjectPath

\* write_readme(content), with ev what input() does if it is reached.
write_readme(files, wd, content, ev) ==
    IF os_path_exists(files, Resolve(wd, "README.md"))
    THEN LET asking == OriginalCwd
             prompt == [prompt |-> "'" \o ReadmeOfProject
                                       \o "' already exists. Overwrite? [y/N] ",
                        answer |-> ev]
             asked == [NoIO EXCEPT !.asked = <<prompt>>]
         IN  IF ev = KeyboardInterrupt THEN Escaped(files, asking, asked)
             ELSE IF ev = EOFError
             THEN Raised("EOF when reading a line", files, asking, asked)
             ELSE IF Lower(ev.text) # "y"
             THEN Returned("Aborted by user. README.md was not overwritten.",
                           files, ChdirBack(asking), asked)
             ELSE WriteReadme(files, ChdirBack(asking), content, asked)
    ELSE WriteReadme(files, wd, content, NoIO)

\* func(self, **args) for the function registered as tool_info.
ReadmifyToolCall(tool_info, args, files, wd, ev) ==
    LET func == tool_info.function
        err == BindError("ReadmifyEnvironment." \o Join(func.name),
                         Tail(func.params), args)
    IN  IF err # "" THEN [Raised(err, files, wd, NoIO) EXCEPT !.impl = FALSE]
        ELSE IF func.name = <<"list_files_and_dirs">>
        THEN list_files_and_dirs(files, wd,
                 IF "path" \in KwNames(args) THEN KwValue(args, "path") ELSE Root)
        ELSE IF func.name = <<"read_file">>
        THEN read_file(files, wd, KwValue(args, "path"))
        ELSE write_readme(files, wd, KwValue(args, "content"), ev)

CallList == [id |-> "call_11", type |-> "function",
             function |-> [name |-> "list_files_and_dirs",
                           arguments |-> <<"{", "}">>]]
CallRead == [id |-> "call_12", type |-> "function",
             function |-> [name |-> "read_file",
                           arguments |-> <<"{", "\"path\"", ":", "\"README.md\"", "}">>]]
CallWrite == [id |-> "call_13", type |-> "function",
              function |-> [name |-> "write_readme",
                            arguments |-> <<"{", "\"content\"", ":", "\"# Title\"", "}">>]]

\* The assistant messages the gateway may answer a readmify run with.
ReadmifyReplies ==
    {[role |-> "assistant", content |-> "The README is written."],
     [role |-> "assistant", content |-> None, tool_calls |-> <<CallList>>],
     [role |-> "assistant", content |-> None, tool_calls |-> <<CallRead>>],
     [role |-> "assistant", content |-> None, tool_calls |-> <<CallWrite>>],
     [role |-> "assistant", content |-> None,
      tool_calls |-> <<CallWrite, CallRead>>]}

ReadmifySystemPrompt ==
    "You are an expert technical writer specializing in creating high-quality README.md files for software projects."
ReadmifyTask ==
    "Please generate a README.md file for the project located at '"
        \o ProjectPath
        \o "'. Start by exploring the project using the available tools."

\* What input() may do at the overwrite prompt.
OverwriteEvents ==
    {Line("y"), Line("Y"), Line("n"), Line(""), KeyboardInterrupt, EOFError}

\* The project before the session: with a README.md or without one.
ProjectFiles ==
    {EmptyFs, [EmptyFs EXCEPT ![ReadmeOfProject] = File("# Old")]}

\* readmify() up to the call of run: the Environment, which has changed to
\* the project path, and the Agent are there.
InitReadmify ==
    /\ class_def = ReadmifyEnvClass
    /\ env_pc = "built"
    /\ tools = EnvironmentInit(class_def)
    /\ listings = <<>>
    /\ env_calls = 0
    /\ last_result = NoResult
    /\ env_class = "ReadmifyEnvironment"
    /\ messages = <<format_system_message(ReadmifySystemPrompt)>>
    /\ pc = "idle"
    /\ max_iterations = 0
    /\ iteration = 0
    /\ response = LLMCompletionResponse(EmptyDict)
    /\ tool_idx = 0
    /\ error = NoError
    /\ requests = <<>>
    /\ replies = <<>>
    /\ tool_log = <<>>
    /\ impl_log = <<>>
    /\ hook_log = <<>>
    /\ run_base = 0
    /\ runs = 0
    /\ budget_used = 0
    /\ should_terminate = FALSE
    /\ io = NoIO
    /\ suggestion = PyNone
    /\ process = Running
    /\ kwargs = NoKwargs
    /\ legacy = NoLegacy
    /\ fs \in ProjectFiles
    /\ cwd = ProjectPath
    /\ paths = <<>>
    /\ summary = NotSummarized

\* readmify(): the one run of the session.  The budgets of the model stand
\* for the 25 iterations readmify gives it.
Readmify(n) ==
    /\ runs = 0
    /\ n >= 1
    /\ RunStep(ReadmifyTask, n)
    /\ UNCHANGED <<chat_vars, cli_vars, twin_vars, host_vars>>

ReadmifyCompletion(m) ==
    /\ CompletionStep(m)
    /\ UNCHANGED <<chat_vars, cli_vars, twin_vars, host_vars>>

ReadmifyCompletionFails ==
    /\ CompletionFailsStep
    /\ UNCHANGED <<chat_vars, cli_vars, twin_vars, host_vars>>

\* A tool call of the turn handled by the ReadmifyEnvironment, with ev what
\* input() does if it is reached.  An exception that is no Exception passes
\* the `except Exception` of the loop and ends the run.
ReadmifyDispatchTool(ev) ==
    /\ pc = "dispatch"
    /\ LET tool_name == CurrentCall.function.name
           tool_args == JsonLoads(CurrentCall.function.arguments)
           b == IF tool_args.ok /\ ToolFound(tools, tool_name)
                THEN ReadmifyToolCall(DictItem(tools, tool_name),
                                      tool_args.value, fs, cwd, ev)
                ELSE [Returned("", fs, cwd, NoIO) EXCEPT !.impl = FALSE]
       IN  /\ IF b.escapes
              THEN /\ pc' = "raised"
                   /\ error' = [exc |-> "KeyboardInterrupt", text |-> ""]
                   /\ UNCHANGED env_vars
                   /\ UNCHANGED <<env_class, messages, max_iterations, iteration,
                                  response, tool_idx, requests, replies, tool_log,
                                  impl_log, hook_log, run_base, runs, budget_used>>
              ELSE DispatchStep([raised |-> b.raised, val |-> b.val,
                                 impl |-> b.impl])
           /\ fs' = b.files
           /\ cwd' = b.cwd
           /\ io' = b.io
    /\ UNCHANGED <<should_terminate, cli_vars, twin_vars, paths, summary>>

\* The hook, which ReadmifyEnvironment leaves as Environment has it.
ReadmifyContinuation ==
    /\ HookStep(handle_agent_response)
    /\ UNCHANGED <<chat_vars, cli_vars, twin_vars, host_vars>>

NextReadmify ==
    \/ \E n \in 1..MaxBudget : Readmify(n)
    \/ \E m \in ReadmifyReplies : ReadmifyCompletion(m)
    \/ ReadmifyCompletionFails
    \/ \E ev \in OverwriteEvents : ReadmifyDispatchTool(ev)
    \/ ReadmifyContinuation

SpecReadmify == InitReadmify /\ [][NextReadmify]_vars

\* ------------------------------------------------------ a run of summarize
\* Paths given to one call of _do_summarize.
MaxPaths == 3

\* summarize.py: PROMPT_CHAR_LIMIT
PROMPT_CHAR_LIMIT == 4000

\* The paths a call may be given: files read as in the tests, and a path
\* that is neither a file nor a directory.
SummarizePaths ==
    {"file1.txt", "file2.txt", "file3.txt", "notes.md", "huge.txt", "nowhere"}

\* len(content) of the snippet read from a file.
SnippetLen(path) ==
    CASE path = "file1.txt" -> 2000
      [] path = "file2.txt" -> 2000
      [] path = "file3.txt" -> 27
      [] path = "notes.md" -> 1929
      [] path = "huge.txt" -> 3966
      [] OTHER -> 0

\* _read_sample_of_path(path): the sample of a file, or the error entry of a
\* path that is neither a file nor a directory.
read_sample_of_path(path) ==
    IF path = "nowhere"
    THEN [path |-> path, error |-> path \o " doesn't appear to be valid"]
    ELSE [file |-> path, snippet |-> [chars |-> SnippetLen(path)]]

\* len(json.dumps(sample)): the braces, the quoted keys and values and
\* their separators, for texts that need no escapes.
JsonDumpsLen(sample) ==
    IF "file" \in DOMAIN sample
    THEN Len("{\"file\": \"") + Len(sample.file) + Len("\", \"snippet\": \"")
             + sample.snippet.chars + Len("\"}")
    ELSE Len("{\"path\": \"") + Len(sample.path) + Len("\", \"error\": \"")
             + Len(sample.error) + Len("\"}")

\* The limit taken to be passed when it is reached.
Exceeds_AtLimit(current_size, sample_size) ==
    current_size + sample_size >= PROMPT_CHAR_LIMIT

\* `if current_size + sample_size > PROMPT_CHAR_LIMIT`
Exceeds(current_size, sample_size) ==
    current_size + sample_size > PROMPT_CHAR_LIMIT

\* `for path in paths` of _do_summarize from the path at i on, with acc the
\* samples, their size, the truncation mark and the paths read so far.
RECURSIVE SampleLoop(_, _, _)
SampleLoop(given, i, acc) ==
    IF i > Len(given) THEN acc
    ELSE LET sample == read_sample_of_path(given[i])
             sample_size == JsonDumpsLen(sample)
             read == Append(acc.reads, given[i])
         IN  IF Exceeds(acc.current_size, sample_size)
             THEN [acc EXCEPT !.reads = read, !.truncated = TRUE]
             ELSE SampleLoop(given, i + 1,
                      [samples |-> Append(acc.samples, sample),
                       current_size |-> acc.current_size + sample_size,
                       truncated |-> acc.truncated,
                       reads |-> read])

TruncationNote ==
    "\n\n... (input truncated to fit within the prompt limit of "
        \o IntToStr(PROMPT_CHAR_LIMIT) \o " characters)"

\* _do_summarize up to the Agent: the loop, and the user task made of the
\* heading, json.dumps(samples, indent=2) and the note of a truncated input.
do_summarize(given) ==
    LET done == SampleLoop(given, 1,
                    [samples |-> <<>>, current_size |-> 0,
                     truncated |-> FALSE, reads |-> <<>>])
    IN  [kind |-> "done",
         samples |-> done.samples,
         current_size |-> done.current_size,
         truncated |-> done.truncated,
         reads |-> done.reads,
         user_task |->
             [heading |-> "Summarize the following files/directories:\n\n",
              samples |-> done.samples,
              note |-> IF done.truncated THEN TruncationNote ELSE ""]]

SummarizeSystemPrompt ==
    "You are a helpful assistant that summarizes the content of files or directories."

\* The assistant messages the gateway may answer the summarize run with.
SummarizeReplies ==
    {[role |-> "assistant", content |-> "This is a summary."],
     [role |-> "assistant", content |-> None]}

RECURSIVE SeqsUpTo(_, _)
SeqsUpTo(S, n) ==
    IF n = 0 THEN {<<>>}
    ELSE LET shorter == SeqsUpTo(S, n - 1)
         IN  shorter \cup {Append(s, x) : s \in shorter, x \in S}

\* A call of _do_summarize is about to be made with some paths.
InitSummarize ==
    /\ class_def = <<>>
    /\ env_pc = "built"
    /\ tools = EnvironmentInit(class_def)
    /\ listings = <<>>
    /\ env_calls = 0
    /\ last_result = NoResult
    /\ env_class = "Environment"
    /\ messages = <<format_system_message(SummarizeSystemPrompt)>>
    /\ pc = "idle"
    /\ max_iterations = 0
    /\ iteration = 0
    /\ response = LLMCompletionResponse(EmptyDict)
    /\ tool_idx = 0
    /\ error = NoError
    /\ requests = <<>>
    /\ replies = <<>>
    /\ tool_log = <<>>
    /\ impl_log = <<>>
    /\ hook_log = <<>>
    /\ run_base = 0
    /\ runs = 0
    /\ budget_used = 0
    /\ should_terminate = FALSE
    /\ io = NoIO
    /\ suggestion = PyNone
    /\ process = Running
    /\ kwargs = NoKwargs
    /\ legacy = NoLegacy
    /\ fs = EmptyFs
    /\ cwd = OriginalCwd
    /\ paths \in SeqsUpTo(SummarizePaths, MaxPaths)
    /\ summary = NotSummarized

\* _do_summarize(config, paths) up to the first request of its Agent.
DoSummarize ==
    /\ summary = NotSummarized
    /\ summary' = do_summarize(paths)
    /\ RunStep(summary'.user_task, 1)
    /\ UNCHANGED <<chat_vars, cli_vars, twin_vars, fs, cwd, paths>>

SummarizeCompletion(m) ==
    /\ CompletionStep(m)
    /\ UNCHANGED <<chat_vars, cli_vars, twin_vars, host_vars>>

SummarizeCompletionFails ==
    /\ CompletionFailsStep
    /\ UNCHANGED <<chat_vars, cli_vars, twin_vars, host_vars>>

\* The hook of the Environment() of _do_summarize.
SummarizeContinuation ==
    /\ HookStep(handle_agent_response)
    /\ UNCHANGED <<chat_vars, cli_vars, twin_vars, host_vars>>

NextSummarize ==
    \/ DoSummarize
    \/ \E m \in SummarizeReplies : SummarizeCompletion(m)
    \/ SummarizeCompletionFails
    \/ SummarizeContinuation

SpecSummarize == InitSummarize /\ [][NextSummarize]_vars

\* ------------------------------------------------------------------ claims
Last(q) == q[Len(q)]

NoToolCalls(m) == "tool_calls" \notin DOMAIN m \/ m.tool_calls = <<>>

\* The messages the current run has appended.
RunMessages == SubSeq(messages, run_base + 1, Len(messages))

\* A pass of the loop has issued its request and has not reached its end.
MidPass ==
    \/ pc \in {"dispatch", "await_cont"}
    \/ pc = "done" /\ ~response.interrupted
    \/ pc = "raised" /\ error.exc \in {"JSONDecodeError", "GatewayError"}

\* C1: a run with max_iterations = N >= 1 issues at most N completion
\* requests, and each pass of the loop issues exactly one, however many tool
\* calls its turn holds.
C1_AtMostNRequests ==
    (runs > 0 /\ max_iterations >= 1) =>
        /\ Len(requests) <= max_iterations
        /\ Len(requests) = iteration + (IF MidPass THEN 1 ELSE 0)

C1_Witness ==
    /\ pc = "done"
    /\ max_iterations = 3
    /\ Len(requests) = 3
    /\ Len(tool_log) > Len(requests)

\* C2: when every completion request is answered with a message holding at
\* least one tool call, the run ends by returning, after exactly
\* max_iterations requests, with the result marked interrupted.
C2_AlwaysToolCallsRunsOutBudget ==
    (/\ pc \in {"done", "raised"}
     /\ max_iterations >= 1
     /\ Len(replies) = Len(requests)
     /\ \A i \in 1..Len(replies) : ~NoToolCalls(replies[i])) =>
        /\ pc = "done"
        /\ Len(requests) = max_iterations
        /\ response.interrupted

\* The last turn of the run asked for more: it made tool calls, or the hook
\* answered it with an instruction.
LastTurnContinued ==
    \/ ~NoToolCalls(response.assistant_message)
    \/ hook_log # <<>> /\ Last(hook_log) \notin {None, ""}

\* C3: the returned result is marked interrupted exactly when the run ended
\* on the exhausted budget; a run the hook ended by returning nothing is not
\* marked, also on the last permitted iteration.
C3_InterruptedIffBudgetExhausted ==
    (pc = "done" /\ max_iterations >= 1) =>
        /\ response.interrupted <=>
               (Len(requests) = max_iterations /\ LastTurnContinued)
        /\ (hook_log # <<>> /\ Last(hook_log) \in {None, ""}
                /\ NoToolCalls(response.assistant_message))
               => ~response.interrupted

C3_Witness ==
    /\ pc = "done"
    /\ response.interrupted
    /\ max_iterations = 2
    /\ NoToolCalls(response.assistant_message)
    /\ Last(hook_log) = FollowUp
    /\ Last(messages) = [role |-> "user", content |-> FollowUp]

\* C4: a run called with max_iterations <= 0 ends with the configuration
\* error, and no completion request, tool invocation or hook call is made.
C4_NonPositiveBudgetRejected ==
    (runs > 0 /\ max_iterations <= 0) =>
        /\ pc = "raised"
        /\ error = [exc |-> "ValueError",
                    text |-> "max_iterations must be a positive integer."]
        /\ requests = <<>> /\ replies = <<>>
        /\ tool_log = <<>> /\ impl_log = <<>>
        /\ hook_log = <<>>

C4_Witness ==
    /\ runs = 2
    /\ max_iterations = 0
    /\ pc = "raised"
    /\ Len(messages) > 3

\* C5: when run_tool raises an exception with text T for the call with id I,
\* the run does not end with it: the tool message (I, "Error: " T) is
\* appended, the next call of the turn is dispatched next, and after the last
\* call, if budget remains, the next step is a completion request whose
\* messages end with that tool message.
C5_ToolExceptionRecovered ==
    [][ /\ (pc = "dispatch" /\ Len(tool_log') = Len(tool_log) + 1
              /\ Last(tool_log').raised) =>
            LET calls == ToolCallsOf(response)
                msg == [role |-> "tool",
                        content |-> "Error: " \o Last(tool_log').text,
                        tool_call_id |-> calls[tool_idx].id]
            IN  /\ messages' = Append(messages, msg)
                /\ pc' # "raised"
                /\ tool_idx < Len(calls) =>
                       pc' = "dispatch" /\ tool_idx' = tool_idx + 1
                /\ (tool_idx = Len(calls) /\ iteration + 1 < max_iterations) =>
                       pc' = "await_model"
        /\ (pc = "await_model" /\ tool_log # <<>> /\ Last(tool_log).raised
              /\ Last(tool_log).msg_at = Len(messages)) =>
            /\ Last(messages) =
                   [role |-> "tool",
                    content |-> "Error: " \o Last(tool_log).text,
                    tool_call_id |-> Last(tool_log).call_id]
            /\ requests' = Append(requests, [ref |-> "copy", value |-> messages])
      ]_vars

C5_Witness ==
    /\ Len(requests) = 2
    /\ Last(Last(requests).value) =
           [role |-> "tool", content |-> "Error: boom", tool_call_id |-> "call_1"]

\* C6: a tool call whose arguments do not parse as JSON does not make the run
\* raise.
C6_MalformedArgumentsRecovered ==
    pc = "raised" => error.exc # "JSONDecodeError"

\* C7: run_tool called with a name that is not in the tool table raises the
\* not-found error without calling an implementation, and the run turns it
\* into the tool message "Error: ..." for the call's id and goes on.
C7_UnknownToolRecovered ==
    [][ (pc = "dispatch" /\ Len(tool_log') = Len(tool_log) + 1
           /\ Last(tool_log').name \notin DictKeys(tools)) =>
            LET e == Last(tool_log')
            IN  /\ e.raised
                /\ e.text = "Tool '" \o e.name \o "' not found."
                /\ impl_log' = impl_log
                /\ messages' = Append(messages,
                       [role |-> "tool", content |-> "Error: " \o e.text,
                        tool_call_id |-> ToolCallsOf(response)[tool_idx].id])
                /\ pc' \in {"dispatch", "await_model", "done"}
      ]_vars

C7_Witness ==
    /\ Len(requests) = 2
    /\ \E i \in 1..Len(tool_log) : tool_log[i].name \notin DictKeys(tools)
    /\ \E i \in 1..Len(messages) :
           messages[i] = [role |-> "tool",
                          content |-> "Error: Tool 'no_such_tool' not found.",
                          tool_call_id |-> "call_3"]

\* Tool calls of the assistant message at position p whose tool messages are
\* due: all of them, or those before tool_idx in the turn being dispatched.
DueCalls(p) ==
    IF pc = "dispatch" /\ \A q \in (p + 1)..Len(messages) : messages[q].role = "tool"
    THEN tool_idx - 1
    ELSE Len(messages[p].tool_calls)

\* C8: every assistant message with tool calls c1..ck in the transcript is
\* followed by k tool messages, the i-th with the id of ci and the stringified
\* result or error text of ci, before any assistant or user message; the
\* tools are invoked in the order c1..ck.
C8_ToolMessagesFollowCalls ==
    /\ \A p \in 1..Len(messages) :
           (messages[p].role = "assistant" /\ ~NoToolCalls(messages[p])) =>
               \A j \in 1..DueCalls(p) :
                   /\ p + j <= Len(messages)
                   /\ messages[p + j].role = "tool"
                   /\ messages[p + j].tool_call_id = messages[p].tool_calls[j].id
    /\ \A i \in 1..Len(tool_log) :
           LET e == tool_log[i]
           IN  messages[e.msg_at] =
                   [role |-> "tool",
                    content |-> IF e.raised THEN "Error: " \o e.text ELSE e.text,
                    tool_call_id |-> e.call_id]

\* C9: with the default Environment and a first answer without tool calls,
\* the run makes exactly one completion request and returns that answer
\* unchanged and unmarked; the transcript is what it was at the call (the
\* system message, if any, for the first run) plus the user task and the
\* assistant message.
C9_SimpleCompletion ==
    (/\ env_class = "Environment"
     /\ max_iterations >= 1
     /\ replies # <<>>
     /\ NoToolCalls(replies[1])) =>
        /\ Len(requests) = 1
        /\ pc \in {"await_cont", "done"}
        /\ response.assistant_message = replies[1]
        /\ ~response.interrupted
        /\ Len(messages) = run_base + 2
        /\ \E t \in UserTasks :
               messages[run_base + 1] = [role |-> "user", content |-> t]
        /\ messages[run_base + 2] = replies[1]
        /\ runs = 1 =>
               /\ run_base \in {0, 1}
               /\ run_base = 1 => messages[1].role = "system"

C9_Witness ==
    /\ env_class = "Environment"
    /\ pc = "done"
    /\ runs = 1
    /\ max_iterations = 3
    /\ messages = <<[role |-> "system", content |-> "You are a test assistant."],
                    [role |-> "user", content |-> "Do a simple task."],
                    [role |-> "assistant", content |-> "Task complete."]>>

\* C10: when no turn has tool calls and the hook returns a non-empty string S
\* after the first turn and nothing after the second, the run makes exactly
\* two completion requests and appends exactly one more user message, S,
\* between the two assistant messages.
C10_OneFollowUp ==
    (/\ pc = "done"
     /\ max_iterations >= 2
     /\ Len(hook_log) = 2
     /\ hook_log[1] \notin {None, ""}
     /\ hook_log[2] \in {None, ""}
     /\ \A i \in 1..Len(replies) : NoToolCalls(replies[i])) =>
        /\ Len(requests) = 2
        /\ Len(replies) = 2
        /\ ~response.interrupted
        /\ \E t \in UserTasks :
               RunMessages = <<[role |-> "user", content |-> t],
                               replies[1],
                               [role |-> "user", content |-> hook_log[1]],
                               replies[2]>>

C10_Witness ==
    /\ pc = "done"
    /\ max_iterations = 2
    /\ hook_log = <<FollowUp, None>>
    /\ Len(requests) = 2
    /\ Len(RunMessages) = 4

\* C11: handle_agent_response is called exactly once for each turn whose
\* tool_calls is absent or empty, and never for a turn with a tool call.
C11_HookOncePerPlainTurn ==
    /\ Len(hook_log) + (IF pc = "await_cont" THEN 1 ELSE 0) =
           Cardinality({i \in 1..Len(replies) : NoToolCalls(replies[i])})
    /\ pc = "await_cont" => NoToolCalls(Last(replies))
    /\ pc = "dispatch" => ~NoToolCalls(Last(replies))

C11_Witness ==
    /\ pc = "done"
    /\ Len(replies) = 3
    /\ Len(hook_log) = 2
    /\ \E i \in 1..3 : ~NoToolCalls(replies[i])
    /\ \E i \in 1..3 : "tool_calls" \notin DOMAIN replies[i]
    /\ \E i \in 1..3 : "tool_calls" \in DOMAIN replies[i] /\ replies[i].tool_calls = <<>>

\* C12: the transcript is append-only: over every step of a run, and from
\* one run to the next, the transcript before is a prefix of the transcript
\* after.
C12_TranscriptAppendOnly ==
    [][ /\ Len(messages') >= Len(messages)
        /\ SubSeq(messages', 1, Len(messages)) = messages ]_vars

C12_Witness ==
    /\ runs = 2
    /\ pc = "done"
    /\ run_base >= 4
    /\ Len(messages) >= run_base + 3

IsAssistant(m) == m.role = "assistant"

\* C13: every answer of the gateway is appended as the assistant message
\* before anything else is done with it, also an answer with neither content
\* nor tool calls: the assistant messages the run has appended are the
\* answers it has received, in order.
C13_RepliesAppended ==
    /\ SelectSeq(RunMessages, IsAssistant) = replies
    /\ (pc = "await_cont" \/ (pc = "dispatch" /\ tool_idx = 1)) =>
           Last(messages) = Last(replies)

C13_Witness ==
    /\ pc = "done"
    /\ Len(replies) = 2
    /\ Last(replies) = [role |-> "assistant", content |-> None, tool_calls |-> <<>>]
    /\ Last(messages) = Last(replies)

\* What the message list handed to an earlier request reads now: the copy, or
\* the transcript itself where the list object was handed over.
Held(req) == IF req.ref = "copy" THEN req.value ELSE messages

\* Position in the transcript of the i-th assistant message of the run.
NthAssistant(i) ==
    CHOOSE p \in (run_base + 1)..Len(messages) :
        /\ messages[p].role = "assistant"
        /\ Cardinality({q \in (run_base + 1)..p : messages[q].role = "assistant"}) = i

\* Length of the transcript when the i-th request of the run was issued.
RequestPoint(i) ==
    IF i <= Len(replies) THEN NthAssistant(i) - 1 ELSE Len(messages)

RECURSIVE CallIds(_)
\* The ids of the tool calls of a sequence of assistant messages, in order.
CallIds(msgs) ==
    IF msgs = <<>> THEN <<>>
    ELSE CallIds(SubSeq(msgs, 1, Len(msgs) - 1)) \o
         (IF NoToolCalls(Last(msgs)) THEN <<>>
          ELSE [j \in 1..Len(Last(msgs).tool_calls) |-> Last(msgs).tool_calls[j].id])

\* C15: a run invokes run_tool exactly once for each tool call of the
\* assistant messages it received, failed or not, and no tool implementation
\* is reached but through run_tool.
C15_EachToolCallInvokedOnce ==
    (runs > 0 /\ pc \in {"done", "raised"}) =>
        /\ [i \in 1..Len(tool_log) |-> tool_log[i].call_id] = CallIds(replies)
        /\ Len(impl_log) <= Len(tool_log)

\* C16: with every gateway request, tool invocation and hook call returning,
\* a run with a positive budget is in its loop within max_iterations rounds
\* or has returned a result; it never ends without one.
C16_RunReturns ==
    (runs > 0 /\ max_iterations >= 1 /\ error.exc # "GatewayError") =>
        /\ pc \in {"await_model", "dispatch", "await_cont", "done"}
        /\ Len(requests) <= max_iterations

\* The tool calls of the run's last turn.
LastCalls == ToolCallsOf(response)

\* C28: when a run returns on the exhausted budget after a turn with tool
\* calls, every call of that turn has been invoked and the transcript ends
\* with their tool messages, in the calls' order, which no completion request
\* of the run was given; after a turn the hook answered with an instruction,
\* the transcript ends with that user message, given to no request either.
C28_LastTurnDispatchedInFull ==
    (pc = "done" /\ response.interrupted /\ max_iterations >= 1) =>
        /\ Len(requests) = max_iterations
        /\ \A i \in DOMAIN requests : Len(requests[i].value) < Len(messages)
        /\ LastCalls # <<>> =>
               LET k == Len(LastCalls)
               IN  /\ Len(tool_log) >= k
                   /\ Len(Last(requests).value) + 1 + k = Len(messages)
                   /\ \A j \in 1..k :
                          /\ tool_log[Len(tool_log) - k + j].call_id = LastCalls[j].id
                          /\ tool_log[Len(tool_log) - k + j].name
                                 = LastCalls[j].function.name
                          /\ messages[Len(messages) - k + j].role = "tool"
                          /\ messages[Len(messages) - k + j].tool_call_id
                                 = LastCalls[j].id
        /\ LastCalls = <<>> =>
               /\ Last(messages) = format_user_message(Last(hook_log))
               /\ Len(Last(requests).value) + 2 = Len(messages)

\* An interrupted run whose last turn held two tool calls.
C28_Witness ==
    /\ pc = "done"
    /\ response.interrupted
    /\ Len(LastCalls) = 2
    /\ Last(messages).role = "tool"
    /\ Last(messages).tool_call_id = LastCalls[2].id

\* C29: the result a run returns is the response to the run's most recent
\* completion request, and its assistant message is the last assistant
\* message of the transcript, on a natural finish and on an exhausted budget.
C29_ResultIsLastResponse ==
    (pc = "done" /\ max_iterations >= 1) =>
        /\ replies # <<>>
        /\ response.assistant_message = Last(replies)
        /\ \E i \in (run_base + 1)..Len(messages) :
               /\ messages[i] = response.assistant_message
               /\ messages[i].role = "assistant"
               /\ \A j \in (i + 1)..Len(messages) : messages[j].role # "assistant"

\* An interrupted run of two turns returns the second turn's response.
C29_Witness ==
    /\ pc = "done"
    /\ response.interrupted
    /\ Len(replies) = 2
    /\ replies[1] # replies[2]
    /\ response.assistant_message = replies[2]

\* C30: a step in which the hook returns appends a user message, and goes on
\* to another round or to the end of the budget, exactly when the hook's
\* result is a non-empty string; on nothing and on the empty string the
\* transcript stays as it is and the run ends, not marked interrupted.
C30_EmptyStringIsNothing ==
    [][Len(hook_log') = Len(hook_log) + 1 =>
           LET h == Last(hook_log')
           IN  IF h \notin {None, ""}
               THEN /\ messages' = Append(messages, [role |-> "user", content |-> h])
                    /\ \/ pc' = "await_model"
                       \/ pc' = "done" /\ response'.interrupted
               ELSE /\ messages' = messages
                    /\ pc' = "done"
                    /\ ~response'.interrupted]_vars

\* The hook returned the empty string with budget left, and the run ended.
C30_Witness ==
    /\ pc = "done"
    /\ hook_log # <<>>
    /\ Last(hook_log) = ""
    /\ Len(requests) < max_iterations
    /\ ~response.interrupted
    /\ Last(messages).role = "assistant"

\* -------------------------------------------- claims on the transcript
\* The positions of the system messages of a transcript.
SystemAt(list) == {i \in DOMAIN list : list[i].role = "system"}

\* C31: the transcript holds at most one system message, which is then its
\* first message and carries the non-empty system prompt of the construction;
\* no step of Agent.run adds or removes a system message.
C31_OneSystemMessageFirst ==
    /\ [](/\ SystemAt(messages) \subseteq {1}
          /\ \A i \in SystemAt(messages) :
                 messages[i].content \in SystemPrompts \ {""})
    /\ [][SystemAt(messages') = SystemAt(messages)]_vars

\* A run with a follow-up has ended and the system message is still the one
\* message of its kind, at the head.
C31_Witness ==
    /\ pc = "done"
    /\ Len(messages) >= 5
    /\ SystemAt(messages) = {1}
    /\ messages[1] = format_system_message("You are a test assistant.")
    /\ \E i \in DOMAIN messages : i > 2 /\ messages[i].role = "user"

\* C34: no two adjacent messages of the transcript are assistant messages,
\* and every completion request carries a transcript that ends with a user
\* or a tool message.
C34_AssistantTurnsSeparated ==
    /\ \A i \in DOMAIN messages :
           (i > 1 /\ messages[i].role = "assistant")
               => messages[i - 1].role # "assistant"
    /\ \A k \in DOMAIN requests :
           /\ requests[k].value # <<>>
           /\ Last(requests[k].value).role \in {"user", "tool"}

\* Three assistant messages in one run, the second asked for after tool
\* messages, the third after a follow-up of the user.
C34_Witness ==
    /\ Len(requests) = 3
    /\ Last(requests[2].value).role = "tool"
    /\ Last(requests[3].value).role = "user"
    /\ Len(replies) = 3
    /\ Cardinality({i \in DOMAIN messages : messages[i].role = "assistant"}) >= 3

\* C35: a run rejected for its budget leaves the transcript as it was before
\* the call.
C35_RejectedRunLeavesTranscript ==
    [][(pc' = "raised" /\ error'.exc = "ValueError" /\ runs' = runs + 1)
           => messages' = messages]_vars

\* ------------------------------------------------ claims on the Environment
Marked(value) == "__tool_info__" \in DictKeys(value.attrs)

Registered(value) == DictItem(value.attrs, "__tool_info__")

\* C17: in a constructed Environment no key of the tool table is a name that
\* begins with "_", whether or not the member of that name carries the tool
\* marking, and every key is the name of a declared member that carries it.
C17_OnlyPublicMarkedCollected ==
    env_pc = "built" =>
        /\ \A n \in DOMAIN SortedNames :
               SortedNames[n][1] = "_" =>
                   Join(SortedNames[n]) \notin DictKeys(tools)
        /\ \A k \in DictKeys(tools) :
               \E i \in DOMAIN class_def :
                   /\ Join(class_def[i].attr) = k
                   /\ Marked(class_def[i].value)

\* A class with a marked private member and a marked public one is built.
C17_Witness ==
    /\ env_pc = "built"
    /\ tools # <<>>
    /\ \E i \in DOMAIN class_def :
           /\ class_def[i].attr = <<"_", "private_tool">>
           /\ Marked(class_def[i].value)

ParamNames(params) == [i \in DOMAIN params |-> params[i].name]

\* C18: the schema of every registration lists in required exactly the
\* parameters other than self that have no default, in the order they are
\* declared, and has a property for every parameter other than self; the
\* constructed table holds the schema unchanged.
C18_RequiredIffNoDefault ==
    \A i \in DOMAIN class_def :
        Marked(class_def[i].value) =>
            LET func == class_def[i].value
                schema == Registered(func).parameters
                NotSelf(p) == p.name # "self"
                NoDefault(p) == p.name # "self" /\ ~p.has_default
            IN  /\ schema.required = ParamNames(SelectSeq(func.params, NoDefault))
                /\ DictKeys(schema.properties) =
                       {func.params[j].name : j \in
                            {x \in DOMAIN func.params : NotSelf(func.params[x])}}
                /\ Join(class_def[i].attr) \in DictKeys(tools) =>
                       DictItem(tools, Join(class_def[i].attr)).parameters = schema

\* A collected tool that declares a required parameter after a defaulted one.
C18_Witness ==
    /\ env_pc = "built"
    /\ \E i \in DOMAIN tools :
           LET params == tools[i].value.function.params
           IN  /\ Len(params) = 3
               /\ params[2].has_default
               /\ ~params[3].has_default
               /\ tools[i].value.parameters.required = <<params[3].name>>

\* A docstring with no text: None, empty, or whitespace only.
Blank(doc) ==
    doc.kind = "None" \/ \A j \in DOMAIN doc.text : doc.text[j] \in Whitespace

ListingOf(i) ==
    LET func == (CHOOSE m \in {class_def[j] : j \in DOMAIN class_def} :
                     Join(m.attr) = tools[i].key).value
    IN  [type |-> "function",
         function |-> [name |-> Join(func.name),
                       description |-> Registered(func).description,
                       parameters |-> Registered(func).parameters]]

\* C20: every call of get_tools on a constructed Environment, whatever
\* run_tool calls come between, returns one entry per table entry, in the
\* table's order, of the shape {type, function: {name, description,
\* parameters}} with what the tool was registered with; and no step changes
\* the tool table of a constructed Environment.
C20_GetToolsIdempotent ==
    /\ [](\A l \in DOMAIN listings :
              /\ Len(listings[l]) = Len(tools)
              /\ \A i \in DOMAIN tools : listings[l][i] = ListingOf(i))
    /\ [][env_pc = "built" => tools' = tools]_vars

\* Two listings of a table of two tools, with run_tool called as well.
C20_Witness ==
    /\ Len(listings) >= 2
    /\ env_calls >= 1
    /\ Len(tools) >= 2
    /\ listings[1] = listings[2]
    /\ tools[1].key = "fetch"

\* The JSON type the schema is to give a parameter of the declared type.
ExpectedJsonType(hint) ==
    CASE hint = "str" -> "string"
      [] hint = "int" -> "integer"
      [] hint = "float" -> "number"
      [] hint = "bool" -> "boolean"
      [] hint = "list" -> "array"
      [] hint = "dict" -> "object"
      [] OTHER -> "string"

\* C21: in the schema of every registration each parameter other than self
\* has exactly one type: string, integer, number, boolean, array or object
\* for str, int, float, bool, list or dict, and string for a parameter with
\* no declared type or with any other; the constructed table holds the same.
C21_TypeMap ==
    \A i \in DOMAIN class_def :
        Marked(class_def[i].value) =>
            LET func == class_def[i].value
                properties == Registered(func).parameters.properties
                key == Join(class_def[i].attr)
            IN  \A j \in DOMAIN func.params :
                    func.params[j].name # "self" =>
                        /\ \E e \in DOMAIN properties :
                               properties[e].key = func.params[j].name
                        /\ \A e \in DOMAIN properties :
                               properties[e].key = func.params[j].name =>
                                   properties[e].value =
                                       [type |-> ExpectedJsonType(func.params[j].hint)]
                        /\ key \in DictKeys(tools) =>
                               DictItem(DictItem(tools, key).parameters.properties,
                                        func.params[j].name).type
                                   = ExpectedJsonType(func.params[j].hint)

\* The tool with a parameter of every type is in the table.
C21_Witness ==
    /\ env_pc = "built"
    /\ "typed_tool" \in DictKeys(tools)
    /\ LET properties == DictItem(tools, "typed_tool").parameters.properties
       IN  /\ DictItem(properties, "x").type = "number"
           /\ DictItem(properties, "l").type = "array"
           /\ DictItem(properties, "o").type = "string"
           /\ DictItem(properties, "u").type = "string"

\* -------------------------------------------- claims on the chat session
Interrupts == {"KeyboardInterrupt", "EOFError"}

\* C22: when input() is ended by KeyboardInterrupt or by the end of input
\* while the hook of the ChatEnvironment waits for the next instruction, the
\* hook returns None and raises nothing: the run ends at once with the last
\* response, not marked interrupted, and the transcript stays as it is.
C22_InterruptAtPromptEndsRun ==
    [][(/\ pc = "await_cont"
        /\ pc' # "await_cont"
        /\ io'.asked # <<>>
        /\ Last(io'.asked).answer.kind \in Interrupts) =>
           /\ hook_log' = Append(hook_log, None)
           /\ pc' = "done"
           /\ error' = NoError
           /\ response' = response
           /\ response'.assistant_message = Last(replies)
           /\ ~response'.interrupted
           /\ messages' = messages]_vars

\* The end of input after an empty line, on the last iteration of the budget.
C22_Witness ==
    /\ env_class = "ChatEnvironment"
    /\ pc = "done"
    /\ Len(io.asked) = 2
    /\ io.asked[1].answer = Line("")
    /\ io.asked[2].answer = EOFError
    /\ Last(hook_log) = None
    /\ Len(requests) = max_iterations
    /\ ~response.interrupted

\* C23: the flag should_terminate, once true, stays true; an invocation of
\* the terminate tool leaves it true; and every call of the hook made while
\* it is true returns None with nothing printed and no input asked, so that
\* the run ends on that turn, the first without tool calls.
C23_TerminateEndsSession ==
    [][/\ should_terminate => should_terminate'
       /\ (/\ Len(impl_log') = Len(impl_log) + 1
           /\ Last(impl_log') = "terminate") => should_terminate'
       /\ (should_terminate /\ pc = "await_cont" /\ pc' # "await_cont") =>
              /\ hook_log' = Append(hook_log, None)
              /\ io' = NoIO
              /\ pc' = "done"
              /\ messages' = messages
              /\ ~response'.interrupted]_vars

\* After terminate, a turn with text and no tool calls has ended the run
\* unprinted.
C23_Witness ==
    /\ should_terminate
    /\ pc = "done"
    /\ Content(response) = "Here you go."
    /\ NoToolCalls(response.assistant_message)
    /\ Last(hook_log) = None
    /\ io = NoIO
    /\ \E i \in DOMAIN impl_log : impl_log[i] = "terminate"

\* The answer is y in either case.
SaidYes(answer) == answer.kind = "line" /\ answer.text \in {"y", "Y"}

\* C26: a step starts a shell command only when in that same step the user
\* was asked to confirm that command and answered y; every invocation of
\* run_command asks once, and on any other answer, on KeyboardInterrupt and
\* on the end of input it starts nothing and its result is "Aborted by user.
\* Command not executed.".
C26_RunCommandAsksEachTime ==
    [][/\ (io'.started # <<>> /\ (io' # io \/ tool_log' # tool_log)) =>
              /\ Len(io'.asked) = 1
              /\ SaidYes(io'.asked[1].answer)
              /\ io'.asked[1].prompt
                     = "Run command '" \o io'.started[1] \o "'? [y/N] "
              /\ Len(impl_log') = Len(impl_log) + 1
       /\ (/\ Len(impl_log') = Len(impl_log) + 1
           /\ Last(impl_log') = "run_command") =>
              /\ Len(io'.asked) = 1
              /\ IF SaidYes(io'.asked[1].answer)
                 THEN io'.started = <<"ls">>
                 ELSE /\ io'.started = <<>>
                      /\ ~Last(tool_log').raised
                      /\ Last(tool_log').text
                             = "Aborted by user. Command not executed."
                      /\ Last(messages').content
                             = "Aborted by user. Command not executed."]_vars

\* A command confirmed and run, and the next invocation denied.
C26_Witness ==
    /\ Len(tool_log) = 2
    /\ tool_log[1].name = "run_command"
    /\ tool_log[1].text = "STDOUT:\ncommand output"
    /\ tool_log[2].name = "run_command"
    /\ tool_log[2].text = "Aborted by user. Command not executed."
    /\ io.asked # <<>>
    /\ io.asked[1].answer = Line("")
    /\ io.started = <<>>

\* The hook of the ChatEnvironment returns in this step.
HookReturned == pc = "await_cont" /\ Len(hook_log') = Len(hook_log) + 1

\* C37: with the terminate flag not set, a turn without tool calls whose
\* content is empty or absent ends the run at once: the hook returns None
\* with nothing printed and no input asked, and the transcript stays as it is.
C37_EmptyTurnEndsChat ==
    [][(/\ ~should_terminate
        /\ pc = "await_cont"
        /\ pc' # "await_cont"
        /\ ~Truthy(Content(response))) =>
           /\ hook_log' = Append(hook_log, None)
           /\ io' = NoIO
           /\ pc' = "done"
           /\ error' = NoError
           /\ messages' = messages
           /\ response' = response
           /\ ~response'.interrupted]_vars

\* After a follow-up of the user the model answered with the empty string,
\* and the run ended with budget left.
C37_Witness ==
    /\ env_class = "ChatEnvironment"
    /\ ~should_terminate
    /\ pc = "done"
    /\ Len(hook_log) = 2
    /\ hook_log[1] = "a follow-up question"
    /\ hook_log[2] = None
    /\ Content(response) = ""
    /\ io = NoIO
    /\ Len(requests) < max_iterations
    /\ ~response.interrupted

\* C38: the hook never returns the empty string.  Every empty line is
\* followed by another prompt; what the hook returns is the first non-empty
\* line, which goes on as the next user message, or None, and None only with
\* the terminate flag set, with empty content, or after an interrupt or the
\* end of input: an empty line does not end the run.
C38_EmptyLineAsksAgain ==
    [][HookReturned =>
           /\ Last(hook_log') # ""
           /\ \A k \in DOMAIN io'.asked :
                  /\ io'.asked[k].prompt = "> "
                  /\ k < Len(io'.asked) <=> io'.asked[k].answer = Line("")
           /\ IF Last(hook_log') = None
              THEN /\ pc' = "done"
                   /\ \/ should_terminate
                      \/ ~Truthy(Content(response))
                      \/ /\ io'.asked # <<>>
                         /\ Last(io'.asked).answer.kind \in Interrupts
              ELSE /\ io'.asked # <<>>
                   /\ Last(io'.asked).answer = Line(Last(hook_log'))
                   /\ Last(messages') = format_user_message(Last(hook_log'))
                   /\ pc' # "raised"]_vars

\* An empty line, then an instruction: the run goes on with it.
C38_Witness ==
    /\ env_class = "ChatEnvironment"
    /\ pc = "await_model"
    /\ Len(io.asked) = 2
    /\ io.asked[1].answer = Line("")
    /\ io.asked[2].answer = Line("a follow-up question")
    /\ Last(hook_log) = "a follow-up question"
    /\ Last(messages) = format_user_message("a follow-up question")

\* ---------------------------------------------- claims on the do command
\* The process has ended after agent.run returned to _suggest_shell_command.
Suggested == process # Running /\ pc = "done"

\* COMMAND_SUGGESTION_SCHEMA: an object with the four required properties,
\* command, explanation and disclaimer strings, risk_assessment one of the
\* integers 0, 1, 2.
Conforms(content) ==
    LET data == json_loads(Lex(content))
    IN  /\ data.ok
        /\ data.type = "dict"
        /\ CommandSuggestionFields \subseteq KwNames(data.value)
        /\ DataItem(data, "command").kind = "str"
        /\ DataItem(data, "risk_assessment").kind = "int"
        /\ DataItem(data, "risk_assessment").val \in {0, 1, 2}
        /\ DataItem(data, "explanation").kind = "str"
        /\ DataItem(data, "disclaimer").kind = "str"

\* C24: when the final turn of the do run has content that does not conform
\* to the command-suggestion structure, _suggest_shell_command has asked the
\* model once, returns the fixed fallback suggestion, and do executes no
\* command.
C24_NonConformingGivesFallback ==
    (Suggested /\ Truthy(Content(response)) /\ ~Conforms(Content(response)))
        => /\ Len(requests) = 1
           /\ suggestion = Fallback
           /\ io.started = <<>>

\* The answer given at the prompt of do is a y in either case.
AnsweredYes ==
    /\ Len(io.asked) = 1
    /\ io.asked[1].prompt = DoPrompt
    /\ io.asked[1].answer.kind = "line"
    /\ Lower(io.asked[1].answer.text) = "y"

\* C25: do executes a command only after the answer y (in either case) at
\* its confirmation prompt, and then the suggested command, which is a
\* non-empty string; after any other answer, an interrupt or the end of
\* input, and when no non-empty command was suggested, none is executed.
C25_ExecutesOnlyAfterYes ==
    /\ io.started # <<>>
           => /\ AnsweredYes
              /\ suggestion.kind = "CommandSuggestion"
              /\ suggestion.command.kind = "str"
              /\ suggestion.command.val # ""
              /\ io.started = <<suggestion.command.val>>
              /\ process.handler = Return
    /\ (process # Running /\ ~AnsweredYes) => io.started = <<>>
    /\ (Suggested /\ (suggestion.kind = "None" \/ ~PyTruthy(suggestion.command)))
           => io.started = <<>> /\ io.asked = <<>>

\* The suggested command has run after the answer Y.
C25_Witness ==
    /\ io.started = <<"ls -l">>
    /\ io.asked[1].answer = Line("Y")
    /\ process.handler = Return

\* C27 as stated: the exit code is 1 when the handler failed with an error
\* it did not catch, and 0 in every other case.
C27_ExitOneIffHandlerError ==
    process # Running
        => IF process.handler.kind = "raise"
           THEN ExitCode(process.outcome) = 1
           ELSE ExitCode(process.outcome) = 0

\* do has found no command to offer.
NoCommand == suggestion.kind = "None" \/ ~PyTruthy(suggestion.command)

\* C27: run_cli ends the process with exit code 1 and the error's text
\* printed when the handler raised an Exception; a handler that left through
\* sys.exit ends the process with its own code, which for do is 1 when no
\* command could be offered and 0 when the confirmation prompt was
\* interrupted; after a handler that returned, the exit code is 0.
C27_ExitCodeOfRunCli ==
    process # Running
        => /\ process.handler.kind = "raise"
                  => /\ process.outcome = SystemExit(1)
                     /\ Last(io.printed) = "Error: " \o process.handler.text
           /\ process.handler.kind = "SystemExit"
                  => /\ process.outcome = process.handler
                     /\ ExitCode(process.outcome) = 1
                            <=> (NoCommand /\ io.asked = <<>>)
                     /\ ExitCode(process.outcome) = 0
                            <=> (Len(io.asked) = 1
                                 /\ io.asked[1].answer.kind
                                        \in {"KeyboardInterrupt", "EOFError"})
           /\ process.handler.kind = "return"
                  => process.outcome = Return /\ ExitCode(process.outcome) = 0

\* The process ended with exit code 1 though no error was raised: do left
\* through sys.exit(1) with the fallback suggestion in hand.
C27_Witness ==
    /\ process # Running
    /\ process.handler = SystemExit(1)
    /\ ExitCode(process.outcome) = 1
    /\ suggestion = Fallback
    /\ io.printed = <<"Could not generate a command for the given prompt.">>

\* ---------------------------------------------- claims on the two Agents
\* `**kwargs` in the completion request of the packaged run
CompletionOptions == kwargs

\* The two runs have made the same calls and hold the same transcript.
TwinSame ==
    /\ legacy.pc = pc
    /\ legacy.error = error
    /\ legacy.iteration = iteration
    /\ legacy.messages = messages
    /\ legacy.tool_log = tool_log
    /\ legacy.hook_log = hook_log
    /\ legacy.response.assistant_message = response.assistant_message
    /\ Len(legacy.requests) = Len(requests)
    /\ \A k \in DOMAIN requests : legacy.requests[k].value = requests[k].value

\* The packaged run marks the result of an exhausted budget and hands over a
\* copy of the transcript; the legacy run does neither.
TwinDiffer ==
    /\ \A k \in DOMAIN requests :
           requests[k].ref = "copy" /\ legacy.requests[k].ref = "alias"
    /\ ~legacy.response.interrupted
    /\ pc = "done" => (response.interrupted <=> iteration = max_iterations)

\* C39 as stated: the two runs differ in the interrupted mark and in the
\* copy of the transcript only, so that their completion requests carry the
\* same options.
C39_TwinsDifferInMarkAndCopyOnly ==
    /\ TwinSame
    /\ TwinDiffer
    /\ \A k \in DOMAIN requests : legacy.requests[k].options = CompletionOptions

\* C39: driven by the same answers, tool results and hook returns with the
\* same budget, the two runs make the same gateway, tool and hook calls in
\* the same order and append the same messages; the packaged one marks the
\* result of an exhausted budget as interrupted and hands the gateway a copy
\* of the transcript, and the legacy one gives every request max_tokens=1024
\* whatever options the packaged one is called with.
C39_TwinsInStep ==
    /\ TwinSame
    /\ TwinDiffer
    /\ \A k \in DOMAIN requests : legacy.requests[k].options = LegacyOptions

\* Both runs have used up a budget of two on tool calls, the packaged one
\* called without options: the results differ in the mark alone.
C39_Witness ==
    /\ pc = "done"
    /\ legacy.pc = "done"
    /\ max_iterations = 2
    /\ Len(requests) = 2
    /\ Len(legacy.requests) = 2
    /\ Len(tool_log) >= 2
    /\ legacy.messages = messages
    /\ response.interrupted
    /\ ~legacy.response.interrupted
    /\ CompletionOptions = NoKwargs

\* ------------------------------------- claims on the file creation tools
\* C33: create_file and create_directory leave every path that is there as
\* it is: no call changes or removes a file or directory that exists, and a
\* call on an existing path returns the error text and changes nothing at
\* all; so a path is made at most once and keeps the content it was made
\* with.
C33_ExistingPathsKept ==
    [][/\ \A p \in FsPaths : fs[p].kind # "absent" => fs'[p] = fs[p]
       /\ \A p \in CreatePaths :
              (CreateDirectory(p) /\ fs[p].kind # "absent")
                  => /\ fs' = fs
                     /\ ~last_result'.raised
                     /\ last_result'.val = PyStr(
                            "Error: Path '" \o p \o "' already exists.")
       /\ \A p \in CreatePaths, content \in CreateContents :
              (CreateFile(p, content) /\ fs[p].kind # "absent")
                  => /\ fs' = fs
                     /\ ~last_result'.raised
                     /\ last_result'.val = PyStr(
                            "Error: File '" \o p \o "' already exists.")]_vars

\* A file was made, and the next call, made on it with other content, was
\* refused.
C33_Witness ==
    /\ env_calls = 2
    /\ fs["proj/src/main.py"] = File("print('hi')")
    /\ last_result.val.val = "Error: File 'proj/src/main.py' already exists."
    /\ fs["proj/notes.txt"] = File("old notes")

\* ---------------------------------------------- claims on readmify sessions
\* C36: in a ReadmifyEnvironment session the working directory is the
\* project path whenever a tool is about to be invoked.
C36_ToolsStartInProject == pc = "dispatch" => cwd = ProjectPath

\* ---------------------------------------------------- claims on summarize
\* The sizes of the samples of the first k given paths, summed.
RECURSIVE SizeOfFirst(_, _)
SizeOfFirst(given, k) ==
    IF k = 0 THEN 0
    ELSE SizeOfFirst(given, k - 1) + JsonDumpsLen(read_sample_of_path(given[k]))

\* C32: the samples sent to the model are those of a prefix of the given
\* paths, and their sizes sum to PROMPT_CHAR_LIMIT at most; when a path is
\* left out, the first one left out is the first whose sample would pass
\* the limit, it is the last path read whatever would fit after it, and
\* the truncation note is in the prompt; when no path is left out, every
\* path is read and there is no note.
C32_SamplesArePrefixWithinLimit ==
    summary.kind = "done" =>
        LET k == Len(summary.samples)
            sent == messages[run_base + 1].content
        IN  /\ k <= Len(paths)
            /\ \A i \in 1..k : summary.samples[i] = read_sample_of_path(paths[i])
            /\ sent.samples = summary.samples
            /\ \A j \in 1..k : SizeOfFirst(paths, j) <= PROMPT_CHAR_LIMIT
            /\ k < Len(paths)
                   => /\ SizeOfFirst(paths, k + 1) > PROMPT_CHAR_LIMIT
                      /\ summary.reads = SubSeq(paths, 1, k + 1)
            /\ k = Len(paths) => summary.reads = paths
            /\ (sent.note = TruncationNote) <=> (k < Len(paths))
            /\ sent.note \in {"", TruncationNote}

\* The three files of the test: the second does not fit, and the third,
\* which would, is neither read nor sent.
C32_Witness ==
    /\ summary.kind = "done"
    /\ paths = <<"file1.txt", "file2.txt", "file3.txt">>
    /\ Len(summary.samples) = 1
    /\ summary.reads = <<"file1.txt", "file2.txt">>
    /\ SizeOfFirst(<<"file1.txt", "file3.txt">>, 2) <= PROMPT_CHAR_LIMIT
    /\ messages[run_base + 1].content.note = TruncationNote
    /\ pc = "done"

====
